---- MODULE Spec2Model ----
(***************************************************************************)
(* Budget-request workflow: the request / item / file handlers of          *)
(* server/src/handlers over the three tables of server/src/db/schema.      *)
(*                                                                         *)
(* Every handler is written once, as a step function over the store with   *)
(* one step per awaited store statement.  Spec runs a handler to           *)
(* completion in one action (one caller, operations one at a time);        *)
(* SpecConc lets two callers interleave the same steps.                    *)
(*                                                                         *)
(* Numbers: a native (JavaScript) number is an integer count of mills      *)
(* (1/1000 of a currency unit); a numeric(15,2) column holds an integer    *)
(* count of cents.  Texts are sequences of one-character strings over      *)
(* the alphabet {" ", "a"} (plus digits for rendered numbers).             *)
(***************************************************************************)
EXTENDS Integers, Sequences, FiniteSets, TLC

VARIABLES budget_requests, budget_items, file_uploads, seqs, disk, now, procs,
          files, isDragging, uploadError

\* The state of the client's FileUploadSection component
clientVars == <<files, isDragging, uploadError>>

vars == <<budget_requests, budget_items, file_uploads, seqs, disk, now, procs, clientVars>>

(***************************************************************************)
(* Bounds of the model                                                     *)
(***************************************************************************)
MaxRequests == 2
MaxItems == 2
MaxFiles == 1
MaxTime == 1
MaxCallers == 2
MaxConcRequests == 1

(***************************************************************************)
(* Values                                                                  *)
(***************************************************************************)
Null == <<>>
Some(v) == <<v>>

\* useState([]), useState(false), useState(null)
ClientIdle ==
  /\ files = <<>>
  /\ isDragging = FALSE
  /\ uploadError = Null

Txt(n) == [i \in 1..n |-> "a"]
Ws(n) == [i \in 1..n |-> " "]

budgetRequestStatus ==
  {"draft", "submitted", "under_review", "approved", "rejected", "revision_requested"}

Abs(x) == IF x < 0 THEN -x ELSE x

\* Faulty variant: the column keeps no decimals
ToNumeric_WholeUnits(x) ==
  IF x >= 0 THEN ((x + 500) \div 1000) * 100 ELSE -(((-x + 500) \div 1000) * 100)

\* number.toString() written into a numeric(15,2) column: the column keeps two
\* decimals, rounding half away from zero (mills -> cents).
ToNumeric(x) == IF x >= 0 THEN (x + 5) \div 10 ELSE -((-x + 5) \div 10)

\* parseFloat of a numeric(15,2) column value (cents -> mills).
ParseFloat(c) == c * 10

RECURSIVE DigitsOf(_)
DigitsOf(n) == IF n < 10 THEN <<ToString(n)>>
               ELSE DigitsOf(n \div 10) \o <<ToString(n % 10)>>

\* The string the driver returns for a numeric(15,2) column, e.g. "25000.00".
NumericText(c) ==
  (IF c < 0 THEN <<"-">> ELSE <<>>)
    \o DigitsOf(Abs(c) \div 100)
    \o <<".", ToString((Abs(c) % 100) \div 10), ToString(Abs(c) % 10)>>

RECURSIVE TrimStart(_)
TrimStart(s) == IF s # <<>> /\ Head(s) = " " THEN TrimStart(Tail(s)) ELSE s

RECURSIVE TrimEnd(_)
TrimEnd(s) == IF s # <<>> /\ s[Len(s)] = " " THEN TrimEnd(SubSeq(s, 1, Len(s) - 1)) ELSE s

\* String.prototype.trim
Trim(s) == TrimEnd(TrimStart(s))

(***************************************************************************)
(* The store: three tables keyed by serial id                              *)
(***************************************************************************)
DB == [budget_requests |-> budget_requests, budget_items |-> budget_items,
       file_uploads |-> file_uploads, seqs |-> seqs, disk |-> disk]

\* db.select().from(table).where(eq(table.id, id)): the list of matching rows
SelectById(table, id) == IF id \in DOMAIN table THEN <<table[id]>> ELSE <<>>

\* db.insert(table).values(row): the table with the row added under its id
InsertRow(table, row) == [k \in DOMAIN table \cup {row.id} |-> IF k = row.id THEN row ELSE table[k]]

\* db.delete(table).where(eq(table.id, id))
DeleteRow(table, id) == [k \in DOMAIN table \ {id} |-> table[k]]

\* Faulty variant: the delete always reports one row
DeleteRowCount_AlwaysOne(table, id) == 1

\* rowCount of that delete
DeleteRowCount(table, id) == IF id \in DOMAIN table THEN 1 ELSE 0

\* Faulty variant: the update carries no where clause
UpdateRow_EveryRow(table, id, data) ==
  [k \in DOMAIN table |->
     [c \in DOMAIN table[k] |-> IF c \in DOMAIN data THEN data[c] ELSE table[k][c]]]

\* db.update(table).set(data).where(eq(table.id, id)): only the columns of data change
UpdateRow(table, id, data) ==
  [k \in DOMAIN table |->
     IF k = id
       THEN [c \in DOMAIN table[k] |-> IF c \in DOMAIN data THEN data[c] ELSE table[k][c]]
       ELSE table[k]]

RECURSIVE SumOver(_, _)
SumOver(table, ids) ==
  IF ids = {} THEN 0
  ELSE LET k == CHOOSE x \in ids : TRUE
       IN table[k].total_cost + SumOver(table, ids \ {k})

ItemsOf(items, rid) == {k \in DOMAIN items : items[k].budget_request_id = rid}

\* Faulty variant: the sum forgets the WHERE budget_request_id = rid
SumTotalCost_AllRequests(items, rid) == SumOver(items, DOMAIN items)

\* COALESCE(SUM(total_cost), 0) over the items of one request, in cents
SumTotalCost(items, rid) == SumOver(items, ItemsOf(items, rid))

(***************************************************************************)
(* Calls in flight                                                         *)
(***************************************************************************)
Begin(op, input, pc) == [op |-> op, input |-> input, pc |-> pc, loc |-> <<>>, result |-> <<>>]

Goto(f, pc, loc) == [f EXCEPT !.pc = pc, !.loc = loc]

Return(f, v) ==
  [f EXCEPT !.pc = "return",
            !.result = [threw |-> FALSE, value |-> <<v>>, error |-> <<>>]]

Throw(f, e) ==
  [f EXCEPT !.pc = "return", !.loc = <<>>,
            !.result = [threw |-> TRUE, value |-> <<>>, error |-> e]]

Idle == [op |-> "idle", input |-> <<>>, pc |-> "idle", loc |-> <<>>, result |-> <<>>]

(***************************************************************************)
(* createBudgetRequest                                                     *)
(***************************************************************************)
\* createBudgetRequestInputSchema: status: budgetRequestStatusSchema.default('draft')
createBudgetRequestInputSchema(raw) ==
  IF "status" \in DOMAIN raw THEN raw ELSE raw @@ [status |-> "draft"]

\* Faulty variant: the row is inserted as a draft whatever the input carries
createBudgetRequestStep_AlwaysDraft(f, db, t) ==
  LET input == f.input
      row == [id |-> db.seqs.budget_requests + 1,
              department_name |-> input.department_name,
              department_code |-> input.department_code,
              contact_person |-> input.contact_person,
              contact_email |-> input.contact_email,
              contact_phone |-> input.contact_phone,
              fiscal_year |-> input.fiscal_year,
              request_title |-> input.request_title,
              request_description |-> input.request_description,
              total_amount |-> ToNumeric(input.total_amount),
              priority_level |-> input.priority_level,
              justification |-> input.justification,
              expected_outcomes |-> input.expected_outcomes,
              timeline_start |-> input.timeline_start,
              timeline_end |-> input.timeline_end,
              status |-> "draft",
              submitted_at |-> Null,
              reviewed_at |-> Null,
              reviewer_notes |-> Null,
              created_at |-> t,
              updated_at |-> t]
  IN [f |-> Return(f, [row EXCEPT !.total_amount = ParseFloat(row.total_amount)]),
      db |-> [db EXCEPT !.budget_requests = InsertRow(@, row),
                        !.seqs.budget_requests = @ + 1]]

createBudgetRequestStep(f, db, t) ==
  LET input == f.input
      row == [id |-> db.seqs.budget_requests + 1,
              department_name |-> input.department_name,
              department_code |-> input.department_code,
              contact_person |-> input.contact_person,
              contact_email |-> input.contact_email,
              contact_phone |-> input.contact_phone,
              fiscal_year |-> input.fiscal_year,
              request_title |-> input.request_title,
              request_description |-> input.request_description,
              total_amount |-> ToNumeric(input.total_amount),
              priority_level |-> input.priority_level,
              justification |-> input.justification,
              expected_outcomes |-> input.expected_outcomes,
              timeline_start |-> input.timeline_start,
              timeline_end |-> input.timeline_end,
              status |-> input.status,
              submitted_at |-> Null,
              reviewed_at |-> Null,
              reviewer_notes |-> Null,
              created_at |-> t,
              updated_at |-> t]
  IN [f |-> Return(f, [row EXCEPT !.total_amount = ParseFloat(row.total_amount)]),
      db |-> [db EXCEPT !.budget_requests = InsertRow(@, row),
                        !.seqs.budget_requests = @ + 1]]

(***************************************************************************)
(* createBudgetItem                                                        *)
(***************************************************************************)
\* Faulty variant: only approved parents are refused
createBudgetItemRejects_ApprovedOnly(status) == status = "approved"

\* Faulty variant: every parent outside draft / revision_requested is refused
createBudgetItemRejects_NotEditable(status) == status \notin {"draft", "revision_requested"}

createBudgetItemRejects(status) == status = "approved" \/ status = "rejected"

createBudgetItemStep(f, db, t) ==
  LET input == f.input IN
  CASE f.pc = "select_request" ->
         LET budgetRequest == SelectById(db.budget_requests, input.budget_request_id) IN
         IF Len(budgetRequest) = 0
           THEN [f |-> Throw(f, <<"Budget request with id {} not found",
                                  ToString(input.budget_request_id)>>),
                 db |-> db]
         ELSE IF createBudgetItemRejects(budgetRequest[1].status)
           THEN [f |-> Throw(f, <<"Cannot add budget items to a {} budget request",
                                  budgetRequest[1].status>>),
                 db |-> db]
         ELSE [f |-> Goto(f, "insert_item", <<>>), db |-> db]
    [] f.pc = "insert_item" ->
         IF input.budget_request_id \notin DOMAIN db.budget_requests
           THEN [f |-> Throw(f, <<"violates foreign key constraint">>), db |-> db]
         ELSE
         LET budgetItem == [id |-> db.seqs.budget_items + 1,
                            budget_request_id |-> input.budget_request_id,
                            category |-> input.category,
                            description |-> input.description,
                            unit |-> input.unit,
                            quantity |-> input.quantity,
                            unit_cost |-> ToNumeric(input.unit_cost),
                            total_cost |-> ToNumeric(input.total_cost),
                            justification |-> input.justification,
                            created_at |-> t]
         IN [f |-> Return(f, [budgetItem EXCEPT !.unit_cost = ParseFloat(budgetItem.unit_cost),
                                                !.total_cost = ParseFloat(budgetItem.total_cost)]),
             db |-> [db EXCEPT !.budget_items = InsertRow(@, budgetItem),
                               !.seqs.budget_items = @ + 1]]

(***************************************************************************)
(* deleteBudgetItem                                                        *)
(***************************************************************************)
\* Faulty variant: submitted counts as editable
editableStatuses_WithSubmitted == {"draft", "revision_requested", "submitted"}

editableStatuses == {"draft", "revision_requested"}

\* Faulty variant: the new total is the stored total less the deleted item's
\* cost instead of the sum of the remaining items
deleteBudgetItemStep_Subtracts(f, db, t) ==
  LET id == f.input IN
  CASE f.pc = "select_item" ->
         LET budgetItem == SelectById(db.budget_items, id) IN
         IF Len(budgetItem) = 0
           THEN [f |-> Return(f, FALSE), db |-> db]
           ELSE [f |-> Goto(f, "select_request", [item |-> budgetItem[1]]), db |-> db]
    [] f.pc = "select_request" ->
         LET budgetRequest == SelectById(db.budget_requests, f.loc.item.budget_request_id) IN
         IF Len(budgetRequest) = 0
           THEN [f |-> Return(f, FALSE), db |-> db]
         ELSE IF budgetRequest[1].status \notin editableStatuses
           THEN [f |-> Return(f, FALSE), db |-> db]
         ELSE [f |-> Goto(f, "delete_item", f.loc), db |-> db]
    [] f.pc = "delete_item" ->
         IF DeleteRowCount(db.budget_items, id) = 0
           THEN [f |-> Return(f, FALSE), db |-> db]
           ELSE [f |-> Goto(f, "sum_remaining", f.loc),
                 db |-> [db EXCEPT !.budget_items = DeleteRow(@, id)]]
    [] f.pc = "sum_remaining" ->
         LET newTotalAmount ==
               ParseFloat(db.budget_requests[f.loc.item.budget_request_id].total_amount
                            - f.loc.item.total_cost)
         IN [f |-> Goto(f, "update_request",
                        [item |-> f.loc.item, newTotalAmount |-> newTotalAmount]),
             db |-> db]
    [] f.pc = "update_request" ->
         [f |-> Return(f, TRUE),
          db |-> [db EXCEPT !.budget_requests =
                    UpdateRow(@, f.loc.item.budget_request_id,
                              [total_amount |-> ToNumeric(f.loc.newTotalAmount),
                               updated_at |-> t])]]

deleteBudgetItemStep(f, db, t) ==
  LET id == f.input IN
  CASE f.pc = "select_item" ->
         LET budgetItem == SelectById(db.budget_items, id) IN
         IF Len(budgetItem) = 0
           THEN [f |-> Return(f, FALSE), db |-> db]
           ELSE [f |-> Goto(f, "select_request", [item |-> budgetItem[1]]), db |-> db]
    [] f.pc = "select_request" ->
         LET budgetRequest == SelectById(db.budget_requests, f.loc.item.budget_request_id) IN
         IF Len(budgetRequest) = 0
           THEN [f |-> Return(f, FALSE), db |-> db]
         ELSE IF budgetRequest[1].status \notin editableStatuses
           THEN [f |-> Return(f, FALSE), db |-> db]
         ELSE [f |-> Goto(f, "delete_item", f.loc), db |-> db]
    [] f.pc = "delete_item" ->
         IF DeleteRowCount(db.budget_items, id) = 0
           THEN [f |-> Return(f, FALSE), db |-> db]
           ELSE [f |-> Goto(f, "sum_remaining", f.loc),
                 db |-> [db EXCEPT !.budget_items = DeleteRow(@, id)]]
    [] f.pc = "sum_remaining" ->
         LET newTotalAmount ==
               ParseFloat(SumTotalCost(db.budget_items, f.loc.item.budget_request_id))
         IN [f |-> Goto(f, "update_request",
                        [item |-> f.loc.item, newTotalAmount |-> newTotalAmount]),
             db |-> db]
    [] f.pc = "update_request" ->
         [f |-> Return(f, TRUE),
          db |-> [db EXCEPT !.budget_requests =
                    UpdateRow(@, f.loc.item.budget_request_id,
                              [total_amount |-> ToNumeric(f.loc.newTotalAmount),
                               updated_at |-> t])]]

(***************************************************************************)
(* updateBudgetItem                                                        *)
(***************************************************************************)
\* Faulty variant: only approved parents are refused
updateBudgetItemRejects_ApprovedOnly(status) == status = "approved"

\* The handler's tests pin the gate for four statuses: approved and rejected
\* parents are refused, draft and submitted parents are accepted.  For the two
\* statuses no test covers, the documented gating is kept: under_review is
\* refused, revision_requested is accepted.
updateBudgetItemRejects(status) == status \in {"under_review", "approved", "rejected"}

Supplied(input, c) == c \in DOMAIN input

\* quantity defaults to 1 when null
QuantityOr1(q) == IF q = Null THEN 1 ELSE q[1]

\* Faulty variant: a supplied unit_cost or quantity overrides a supplied total_cost
updatedTotalCost_ProductWins(input, item) ==
  IF Supplied(input, "unit_cost") \/ Supplied(input, "quantity")
    THEN (IF Supplied(input, "unit_cost") THEN input.unit_cost ELSE ParseFloat(item.unit_cost))
         * QuantityOr1(IF Supplied(input, "quantity") THEN input.quantity ELSE item.quantity)
  ELSE IF Supplied(input, "total_cost") THEN input.total_cost
  ELSE ParseFloat(item.total_cost)

\* The total_cost (mills) an update stores: the supplied one; else the product
\* when unit_cost and/or quantity is supplied; else the stored one.
updatedTotalCost(input, item) ==
  IF Supplied(input, "total_cost") THEN input.total_cost
  ELSE IF Supplied(input, "unit_cost") \/ Supplied(input, "quantity")
    THEN (IF Supplied(input, "unit_cost") THEN input.unit_cost ELSE ParseFloat(item.unit_cost))
         * QuantityOr1(IF Supplied(input, "quantity") THEN input.quantity ELSE item.quantity)
  ELSE ParseFloat(item.total_cost)

\* Faulty variant: an omitted unit is written as null
updateBudgetItemData_ClearsOmittedUnit(input, item) ==
  [c \in (DOMAIN input \ {"id"}) \cup {"total_cost", "unit"} |->
     IF c = "total_cost" THEN ToNumeric(updatedTotalCost(input, item))
     ELSE IF c = "unit_cost" THEN ToNumeric(input.unit_cost)
     ELSE IF c = "unit" /\ ~Supplied(input, "unit") THEN Null
     ELSE input[c]]

updateBudgetItemData(input, item) ==
  [c \in (DOMAIN input \ {"id"}) \cup {"total_cost"} |->
     IF c = "total_cost" THEN ToNumeric(updatedTotalCost(input, item))
     ELSE IF c = "unit_cost" THEN ToNumeric(input.unit_cost)
     ELSE input[c]]

updateBudgetItemStep(f, db, t) ==
  LET input == f.input IN
  CASE f.pc = "select_item" ->
         LET budgetItem == SelectById(db.budget_items, input.id) IN
         IF Len(budgetItem) = 0
           THEN [f |-> Throw(f, <<"Budget item with id {} not found", ToString(input.id)>>),
                 db |-> db]
           ELSE [f |-> Goto(f, "select_request", [item |-> budgetItem[1]]), db |-> db]
    [] f.pc = "select_request" ->
         LET budgetRequest == SelectById(db.budget_requests, f.loc.item.budget_request_id) IN
         IF Len(budgetRequest) = 0
           THEN [f |-> Throw(f, <<"Budget request with id {} not found",
                                  ToString(f.loc.item.budget_request_id)>>),
                 db |-> db]
         ELSE IF updateBudgetItemRejects(budgetRequest[1].status)
           THEN [f |-> Throw(f, <<"Cannot update budget items of a {} budget request",
                                  budgetRequest[1].status>>),
                 db |-> db]
         ELSE [f |-> Goto(f, "update_item", f.loc), db |-> db]
    [] f.pc = "update_item" ->
         IF input.id \notin DOMAIN db.budget_items
           THEN [f |-> Throw(f, <<"Budget item with id {} not found", ToString(input.id)>>),
                 db |-> db]
           ELSE [f |-> Goto(f, "sum_items", f.loc),
                 db |-> [db EXCEPT !.budget_items =
                           UpdateRow(@, input.id, updateBudgetItemData(input, f.loc.item))]]
    [] f.pc = "sum_items" ->
         LET newTotalAmount ==
               ParseFloat(SumTotalCost(db.budget_items, f.loc.item.budget_request_id))
         IN [f |-> Goto(f, "update_request",
                        [item |-> f.loc.item, newTotalAmount |-> newTotalAmount]),
             db |-> db]
    [] f.pc = "update_request" ->
         LET stored == SelectById(db.budget_items, input.id) IN
         IF Len(stored) = 0
           THEN [f |-> Throw(f, <<"Budget item with id {} not found", ToString(input.id)>>),
                 db |-> db]
           ELSE [f |-> Return(f, [stored[1] EXCEPT !.unit_cost = ParseFloat(stored[1].unit_cost),
                                                   !.total_cost = ParseFloat(stored[1].total_cost)]),
                 db |-> [db EXCEPT !.budget_requests =
                           UpdateRow(@, f.loc.item.budget_request_id,
                                     [total_amount |-> ToNumeric(f.loc.newTotalAmount),
                                      updated_at |-> t])]]

(***************************************************************************)
(* submitBudgetRequest                                                     *)
(***************************************************************************)
requiredFields ==
  <<"department_name", "contact_person", "contact_email", "request_title",
    "request_description", "total_amount", "justification", "expected_outcomes">>

\* The value Object.entries(requiredFields) yields for a key: the column's
\* string (a numeric column arrives as its decimal text).
requiredFieldValue(row, key) ==
  IF key = "total_amount" THEN NumericText(row.total_amount) ELSE row[key]

\* Faulty variant: whitespace-only values are not trimmed
isMissing_NoTrim(value) == Len(value) = 0

\* !value || (typeof value === 'string' && value.trim().length === 0)
isMissing(value) == Len(value) = 0 \/ Len(Trim(value)) = 0

IsMissingKey(row, key) == isMissing(requiredFieldValue(row, key))

missingFields(row) == SelectSeq(requiredFields, LAMBDA key : IsMissingKey(row, key))

\* Faulty variant: completeness is tested before the status
submitPreconditionError_FieldsFirst(id, existingRequest) ==
  IF Len(missingFields(existingRequest)) > 0
    THEN <<"Cannot submit budget request. Missing required fields: {}">>
           \o missingFields(existingRequest)
  ELSE IF existingRequest.status # "draft"
    THEN <<"Budget request with id {} is not in draft status. Current status: {}",
           ToString(id), existingRequest.status>>
  ELSE IF ParseFloat(existingRequest.total_amount) <= 0
    THEN <<"Cannot submit budget request. Total amount must be greater than 0">>
  ELSE Null

\* Faulty variant: the amount is tested before completeness
submitPreconditionError_AmountFirst(id, existingRequest) ==
  IF existingRequest.status # "draft"
    THEN <<"Budget request with id {} is not in draft status. Current status: {}",
           ToString(id), existingRequest.status>>
  ELSE IF ParseFloat(existingRequest.total_amount) <= 0
    THEN <<"Cannot submit budget request. Total amount must be greater than 0">>
  ELSE IF Len(missingFields(existingRequest)) > 0
    THEN <<"Cannot submit budget request. Missing required fields: {}">>
           \o missingFields(existingRequest)
  ELSE Null

\* Faulty variant: a total of exactly zero passes
submitPreconditionError_ZeroPasses(id, existingRequest) ==
  IF existingRequest.status # "draft"
    THEN <<"Budget request with id {} is not in draft status. Current status: {}",
           ToString(id), existingRequest.status>>
  ELSE IF Len(missingFields(existingRequest)) > 0
    THEN <<"Cannot submit budget request. Missing required fields: {}">>
           \o missingFields(existingRequest)
  ELSE IF ParseFloat(existingRequest.total_amount) < 0
    THEN <<"Cannot submit budget request. Total amount must be greater than 0">>
  ELSE Null

\* The preconditions on the row read, in the order the handler tests them:
\* the error thrown by the first that fails, or Null when all pass.
submitPreconditionError(id, existingRequest) ==
  IF existingRequest.status # "draft"
    THEN <<"Budget request with id {} is not in draft status. Current status: {}",
           ToString(id), existingRequest.status>>
  ELSE IF Len(missingFields(existingRequest)) > 0
    THEN <<"Cannot submit budget request. Missing required fields: {}">>
           \o missingFields(existingRequest)
  ELSE IF ParseFloat(existingRequest.total_amount) <= 0
    THEN <<"Cannot submit budget request. Total amount must be greater than 0">>
  ELSE Null

\* Faulty variant: the status is written although a precondition failed
submitBudgetRequestStep_WritesBeforeChecks(f, db, t) ==
  LET id == f.input IN
  CASE f.pc = "select_request" ->
         LET existingRequests == SelectById(db.budget_requests, id) IN
         IF Len(existingRequests) = 0
           THEN [f |-> Throw(f, <<"Budget request with id {} not found", ToString(id)>>),
                 db |-> db]
         ELSE IF submitPreconditionError(id, existingRequests[1]) # Null
           THEN [f |-> Throw(f, submitPreconditionError(id, existingRequests[1])),
                 db |-> [db EXCEPT !.budget_requests =
                           UpdateRow(@, id, [status |-> "submitted"])]]
         ELSE [f |-> Goto(f, "update_request", <<>>), db |-> db]
    [] f.pc = "update_request" ->
         IF id \notin DOMAIN db.budget_requests
           THEN [f |-> Throw(f, <<"TypeError">>), db |-> db]
           ELSE
           LET table == UpdateRow(db.budget_requests, id,
                                  [status |-> "submitted", submitted_at |-> Some(t),
                                   updated_at |-> t])
               updatedRequest == table[id]
           IN [f |-> Return(f, [updatedRequest EXCEPT
                                  !.total_amount = ParseFloat(updatedRequest.total_amount)]),
               db |-> [db EXCEPT !.budget_requests = table]]

\* Faulty variant: updated_at is not bumped
submitBudgetRequestStep_KeepsUpdatedAt(f, db, t) ==
  LET id == f.input IN
  CASE f.pc = "select_request" ->
         LET existingRequests == SelectById(db.budget_requests, id) IN
         IF Len(existingRequests) = 0
           THEN [f |-> Throw(f, <<"Budget request with id {} not found", ToString(id)>>),
                 db |-> db]
         ELSE IF submitPreconditionError(id, existingRequests[1]) # Null
           THEN [f |-> Throw(f, submitPreconditionError(id, existingRequests[1])), db |-> db]
         ELSE [f |-> Goto(f, "update_request", <<>>), db |-> db]
    [] f.pc = "update_request" ->
         IF id \notin DOMAIN db.budget_requests
           THEN [f |-> Throw(f, <<"TypeError">>), db |-> db]
           ELSE
           LET table == UpdateRow(db.budget_requests, id,
                                  [status |-> "submitted", submitted_at |-> Some(t)])
               updatedRequest == table[id]
           IN [f |-> Return(f, [updatedRequest EXCEPT
                                  !.total_amount = ParseFloat(updatedRequest.total_amount)]),
               db |-> [db EXCEPT !.budget_requests = table]]

submitBudgetRequestStep(f, db, t) ==
  LET id == f.input IN
  CASE f.pc = "select_request" ->
         LET existingRequests == SelectById(db.budget_requests, id) IN
         IF Len(existingRequests) = 0
           THEN [f |-> Throw(f, <<"Budget request with id {} not found", ToString(id)>>),
                 db |-> db]
         ELSE IF submitPreconditionError(id, existingRequests[1]) # Null
           THEN [f |-> Throw(f, submitPreconditionError(id, existingRequests[1])), db |-> db]
         ELSE [f |-> Goto(f, "update_request", <<>>), db |-> db]
    [] f.pc = "update_request" ->
         IF id \notin DOMAIN db.budget_requests
           THEN [f |-> Throw(f, <<"TypeError">>), db |-> db]
           ELSE
           LET table == UpdateRow(db.budget_requests, id,
                                  [status |-> "submitted", submitted_at |-> Some(t),
                                   updated_at |-> t])
               updatedRequest == table[id]
           IN [f |-> Return(f, [updatedRequest EXCEPT
                                  !.total_amount = ParseFloat(updatedRequest.total_amount)]),
               db |-> [db EXCEPT !.budget_requests = table]]

(***************************************************************************)
(* updateBudgetRequest                                                     *)
(***************************************************************************)
\* Faulty variant: a field is copied only when its value is truthy, so a null
\* never reaches the row
updateData_SkipsNull(input, t) ==
  [c \in {k \in DOMAIN input \ {"id"} :
            k \in {"department_code", "contact_phone", "timeline_start", "timeline_end",
                   "reviewer_notes"} => input[k] # Null} \cup {"updated_at"} |->
     IF c = "updated_at" THEN t
     ELSE IF c = "total_amount" THEN ToNumeric(input.total_amount)
     ELSE input[c]]

\* updateData: updated_at plus every column the input carries
updateData(input, t) ==
  [c \in (DOMAIN input \ {"id"}) \cup {"updated_at"} |->
     IF c = "updated_at" THEN t
     ELSE IF c = "total_amount" THEN ToNumeric(input.total_amount)
     ELSE input[c]]

\* Faulty variant: a request that is not editable is refused
updateBudgetRequestStep_StatusGated(f, db, t) ==
  LET input == f.input IN
  CASE f.pc = "select_request" ->
         LET existingRequest == SelectById(db.budget_requests, input.id) IN
         IF Len(existingRequest) = 0
           THEN [f |-> Throw(f, <<"Budget request with ID {} not found", ToString(input.id)>>),
                 db |-> db]
           ELSE IF existingRequest[1].status \notin {"draft", "revision_requested"}
             THEN [f |-> Throw(f, <<"Cannot update budget request with status: {}",
                                    existingRequest[1].status>>),
                   db |-> db]
           ELSE [f |-> Goto(f, "update_request", <<>>), db |-> db]
    [] f.pc = "update_request" ->
         IF input.id \notin DOMAIN db.budget_requests
           THEN [f |-> Throw(f, <<"TypeError">>), db |-> db]
           ELSE
           LET table == UpdateRow(db.budget_requests, input.id, updateData(input, t))
               updatedRequest == table[input.id]
           IN [f |-> Return(f, [updatedRequest EXCEPT
                                  !.total_amount = ParseFloat(updatedRequest.total_amount)]),
               db |-> [db EXCEPT !.budget_requests = table]]

updateBudgetRequestStep(f, db, t) ==
  LET input == f.input IN
  CASE f.pc = "select_request" ->
         LET existingRequest == SelectById(db.budget_requests, input.id) IN
         IF Len(existingRequest) = 0
           THEN [f |-> Throw(f, <<"Budget request with ID {} not found", ToString(input.id)>>),
                 db |-> db]
           ELSE [f |-> Goto(f, "update_request", <<>>), db |-> db]
    [] f.pc = "update_request" ->
         IF input.id \notin DOMAIN db.budget_requests
           THEN [f |-> Throw(f, <<"TypeError">>), db |-> db]
           ELSE
           LET table == UpdateRow(db.budget_requests, input.id, updateData(input, t))
               updatedRequest == table[input.id]
           IN [f |-> Return(f, [updatedRequest EXCEPT
                                  !.total_amount = ParseFloat(updatedRequest.total_amount)]),
               db |-> [db EXCEPT !.budget_requests = table]]

(***************************************************************************)
(* getBudgetRequests                                                       *)
(***************************************************************************)
\* conditions: department_name, status and priority_level count when truthy
\* (an empty string is not), fiscal_year when defined
conditions(query) ==
  {c \in DOMAIN query \cap {"department_name", "fiscal_year", "status", "priority_level"} :
     c = "department_name" => query[c] # <<>>}

\* whereClause: the conjunction of the conditions, nothing when there is none
whereClause(query, row) == \A c \in conditions(query) : row[c] = query[c]

\* orderBy(desc(created_at)): rows with equal created_at come in the order the
\* database happens to produce, given here by the rank ties[id]
RowBefore(table, ties, a, b) ==
  \/ table[a].created_at > table[b].created_at
  \/ table[a].created_at = table[b].created_at /\ ties[a] < ties[b]

RECURSIVE OrderByCreatedAtDesc(_, _, _)
OrderByCreatedAtDesc(table, ties, ids) ==
  IF ids = {} THEN <<>>
  ELSE LET first == CHOOSE a \in ids : \A b \in ids \ {a} : RowBefore(table, ties, a, b)
       IN <<table[first]>> \o OrderByCreatedAtDesc(table, ties, ids \ {first})

\* .limit(n).offset(k) of an ordered result
LimitOffset(rows, n, k) ==
  IF k >= Len(rows) THEN <<>>
  ELSE SubSeq(rows, k + 1, IF k + n < Len(rows) THEN k + n ELSE Len(rows))

getBudgetRequestsStep(f, db, t) ==
  LET query == f.input
      matching == {k \in DOMAIN db.budget_requests : whereClause(query, db.budget_requests[k])}
  IN
  CASE f.pc = "select_page" ->
         LET budgetRequests ==
               LimitOffset(OrderByCreatedAtDesc(db.budget_requests, query.ties, matching),
                           query.limit, query.offset)
         IN [f |-> Goto(f, "select_count", [budgetRequests |-> budgetRequests]), db |-> db]
    [] f.pc = "select_count" ->
         LET total == Cardinality(matching)
             data == [i \in 1..Len(f.loc.budgetRequests) |->
                        [f.loc.budgetRequests[i] EXCEPT
                           !.total_amount = ParseFloat(f.loc.budgetRequests[i].total_amount)]]
         IN [f |-> Return(f, [data |-> data, total |-> total, limit |-> query.limit,
                              offset |-> query.offset,
                              has_more |-> query.offset + query.limit < total]),
             db |-> db]

(***************************************************************************)
(* getBudgetRequestById and getBudgetItems                                 *)
(***************************************************************************)
\* One select by id; null when there is no such row
getBudgetRequestByIdStep(f, db, t) ==
  LET id == f.input
  IN  IF id \notin DOMAIN db.budget_requests
        THEN [f |-> Return(f, Null), db |-> db]
        ELSE LET budgetRequest == db.budget_requests[id]
             IN [f |-> Return(f, Some([budgetRequest EXCEPT
                                         !.total_amount = ParseFloat(budgetRequest.total_amount)])),
                 db |-> db]

\* budget_category in the order the enum declares its labels
budgetCategoryEnum ==
  <<"personnel", "goods_services", "capital_expenditure", "operational",
    "maintenance", "training", "travel", "other">>

EnumRank(enum, label) == CHOOSE i \in 1..Len(enum) : enum[i] = label

\* orderBy(asc(category), asc(created_at)): rows equal in both come in the
\* order the database happens to produce, given here by the rank ties[id]
ItemBefore(table, ties, a, b) ==
  LET ra == EnumRank(budgetCategoryEnum, table[a].category)
      rb == EnumRank(budgetCategoryEnum, table[b].category)
  IN  \/ ra < rb
      \/ ra = rb /\ table[a].created_at < table[b].created_at
      \/ ra = rb /\ table[a].created_at = table[b].created_at /\ ties[a] < ties[b]

RECURSIVE OrderByCategoryCreatedAt(_, _, _)
OrderByCategoryCreatedAt(table, ties, ids) ==
  IF ids = {} THEN <<>>
  ELSE LET first == CHOOSE a \in ids : \A b \in ids \ {a} : ItemBefore(table, ties, a, b)
       IN <<table[first]>> \o OrderByCategoryCreatedAt(table, ties, ids \ {first})

getBudgetItemsStep(f, db, t) ==
  LET budgetRequestId == f.input.budgetRequestId
      results == OrderByCategoryCreatedAt(
                   db.budget_items, f.input.ties,
                   {k \in DOMAIN db.budget_items :
                      db.budget_items[k].budget_request_id = budgetRequestId})
  IN [f |-> Return(f, [i \in 1..Len(results) |->
                         [results[i] EXCEPT !.unit_cost = ParseFloat(results[i].unit_cost),
                                            !.total_cost = ParseFloat(results[i].total_cost)]]),
      db |-> db]

(***************************************************************************)
(* uploadFile                                                              *)
(***************************************************************************)
\* Faulty variant: the limit is one byte short of 50 MiB
maxFileSize_OneByteShort == 50 * 1024 * 1024 - 1

maxFileSize == 50 * 1024 * 1024

allowedMimeTypes ==
  {"application/pdf",
   "application/vnd.ms-excel",
   "application/vnd.openxmlformats-officedocument.spreadsheetml.sheet",
   "text/csv",
   "application/msword",
   "application/vnd.openxmlformats-officedocument.wordprocessingml.document",
   "text/plain",
   "image/jpeg",
   "image/png"}

uploadFile_editableStatuses == {"draft", "revision_requested"}

\* Faulty variant: the size is tested before the status
uploadFileStep_SizeFirst(f, db, t) ==
  LET input == f.input IN
  CASE f.pc = "select_request" ->
         LET budgetRequests == SelectById(db.budget_requests, input.budget_request_id) IN
         IF Len(budgetRequests) = 0
           THEN [f |-> Throw(f, <<"Budget request with ID {} not found",
                                  ToString(input.budget_request_id)>>),
                 db |-> db]
         ELSE IF input.file_size > maxFileSize
           THEN [f |-> Throw(f, <<"File size {} bytes exceeds maximum allowed size of {} bytes",
                                  ToString(input.file_size), ToString(maxFileSize)>>),
                 db |-> db]
         ELSE IF budgetRequests[1].status \notin uploadFile_editableStatuses
           THEN [f |-> Throw(f, <<"Cannot upload files to budget request with status: {}",
                                  budgetRequests[1].status>>),
                 db |-> db]
         ELSE IF input.mime_type \notin allowedMimeTypes
           THEN [f |-> Throw(f, <<"File type {} is not allowed", input.mime_type>>), db |-> db]
         ELSE [f |-> Goto(f, "insert_file", <<>>), db |-> db]
    [] f.pc = "insert_file" ->
         IF input.budget_request_id \notin DOMAIN db.budget_requests
           THEN [f |-> Throw(f, <<"violates foreign key constraint">>), db |-> db]
           ELSE
           LET fileUpload == [id |-> db.seqs.file_uploads + 1,
                              budget_request_id |-> input.budget_request_id,
                              filename |-> input.filename,
                              original_filename |-> input.original_filename,
                              file_path |-> input.file_path,
                              file_size |-> input.file_size,
                              mime_type |-> input.mime_type,
                              uploaded_at |-> t]
           IN [f |-> Return(f, fileUpload),
               db |-> [db EXCEPT !.file_uploads = InsertRow(@, fileUpload),
                                 !.seqs.file_uploads = @ + 1]]

uploadFileStep(f, db, t) ==
  LET input == f.input IN
  CASE f.pc = "select_request" ->
         LET budgetRequests == SelectById(db.budget_requests, input.budget_request_id) IN
         IF Len(budgetRequests) = 0
           THEN [f |-> Throw(f, <<"Budget request with ID {} not found",
                                  ToString(input.budget_request_id)>>),
                 db |-> db]
         ELSE IF budgetRequests[1].status \notin uploadFile_editableStatuses
           THEN [f |-> Throw(f, <<"Cannot upload files to budget request with status: {}",
                                  budgetRequests[1].status>>),
                 db |-> db]
         ELSE IF input.file_size > maxFileSize
           THEN [f |-> Throw(f, <<"File size {} bytes exceeds maximum allowed size of {} bytes",
                                  ToString(input.file_size), ToString(maxFileSize)>>),
                 db |-> db]
         ELSE IF input.mime_type \notin allowedMimeTypes
           THEN [f |-> Throw(f, <<"File type {} is not allowed", input.mime_type>>), db |-> db]
         ELSE [f |-> Goto(f, "insert_file", <<>>), db |-> db]
    [] f.pc = "insert_file" ->
         IF input.budget_request_id \notin DOMAIN db.budget_requests
           THEN [f |-> Throw(f, <<"violates foreign key constraint">>), db |-> db]
           ELSE
           LET fileUpload == [id |-> db.seqs.file_uploads + 1,
                              budget_request_id |-> input.budget_request_id,
                              filename |-> input.filename,
                              original_filename |-> input.original_filename,
                              file_path |-> input.file_path,
                              file_size |-> input.file_size,
                              mime_type |-> input.mime_type,
                              uploaded_at |-> t]
           IN [f |-> Return(f, fileUpload),
               db |-> [db EXCEPT !.file_uploads = InsertRow(@, fileUpload),
                                 !.seqs.file_uploads = @ + 1]]

(***************************************************************************)
(* deleteFileUpload                                                        *)
(***************************************************************************)
\* Faulty variant: approved counts as editable
deleteFileUpload_editableStatuses_WithApproved == {"draft", "revision_requested", "approved"}

deleteFileUpload_editableStatuses == {"draft", "revision_requested"}

\* Faulty variant: an unlink that raises is propagated to the caller
deleteFileUploadStep_UnlinkThrows(f, db, t) ==
  LET id == f.input.id IN
  CASE f.pc = "select_file" ->
         \* inner join of file_uploads with budget_requests
         LET fileUploadResult ==
               IF id \in DOMAIN db.file_uploads
                  /\ db.file_uploads[id].budget_request_id \in DOMAIN db.budget_requests
                 THEN <<[id |-> id,
                         file_path |-> db.file_uploads[id].file_path,
                         budget_request_id |-> db.file_uploads[id].budget_request_id,
                         status |-> db.budget_requests[db.file_uploads[id].budget_request_id].status]>>
                 ELSE <<>>
         IN
         IF Len(fileUploadResult) = 0
           THEN [f |-> Return(f, FALSE), db |-> db]
         ELSE IF fileUploadResult[1].status \notin deleteFileUpload_editableStatuses
           THEN [f |-> Return(f, FALSE), db |-> db]
         ELSE IF fileUploadResult[1].file_path \in db.disk
           THEN [f |-> Goto(f, "unlink", [fileUpload |-> fileUploadResult[1]]), db |-> db]
         ELSE [f |-> Goto(f, "delete_record", [fileDeleted |-> TRUE]), db |-> db]
    [] f.pc = "unlink" ->
         \* an unlink that raises is caught and logged; fileDeleted is true either way
         IF f.input.unlink_fails
           THEN [f |-> Throw(f, <<"EACCES">>), db |-> db]
         ELSE IF f.loc.fileUpload.file_path \notin db.disk
           THEN [f |-> Goto(f, "delete_record", [fileDeleted |-> TRUE]), db |-> db]
           ELSE [f |-> Goto(f, "delete_record", [fileDeleted |-> TRUE]),
                 db |-> [db EXCEPT !.disk = @ \ {f.loc.fileUpload.file_path}]]
    [] f.pc = "delete_record" ->
         [f |-> Return(f, DeleteRowCount(db.file_uploads, id) > 0 /\ f.loc.fileDeleted),
          db |-> [db EXCEPT !.file_uploads = DeleteRow(@, id)]]

\* input: the file id and whether unlink raises.  db.disk is the set of paths
\* that exist in physical storage.
deleteFileUploadStep(f, db, t) ==
  LET id == f.input.id IN
  CASE f.pc = "select_file" ->
         \* inner join of file_uploads with budget_requests
         LET fileUploadResult ==
               IF id \in DOMAIN db.file_uploads
                  /\ db.file_uploads[id].budget_request_id \in DOMAIN db.budget_requests
                 THEN <<[id |-> id,
                         file_path |-> db.file_uploads[id].file_path,
                         budget_request_id |-> db.file_uploads[id].budget_request_id,
                         status |-> db.budget_requests[db.file_uploads[id].budget_request_id].status]>>
                 ELSE <<>>
         IN
         IF Len(fileUploadResult) = 0
           THEN [f |-> Return(f, FALSE), db |-> db]
         ELSE IF fileUploadResult[1].status \notin deleteFileUpload_editableStatuses
           THEN [f |-> Return(f, FALSE), db |-> db]
         ELSE IF fileUploadResult[1].file_path \in db.disk
           THEN [f |-> Goto(f, "unlink", [fileUpload |-> fileUploadResult[1]]), db |-> db]
         ELSE [f |-> Goto(f, "delete_record", [fileDeleted |-> TRUE]), db |-> db]
    [] f.pc = "unlink" ->
         \* an unlink that raises is caught and logged; fileDeleted is true either way
         IF f.input.unlink_fails \/ f.loc.fileUpload.file_path \notin db.disk
           THEN [f |-> Goto(f, "delete_record", [fileDeleted |-> TRUE]), db |-> db]
           ELSE [f |-> Goto(f, "delete_record", [fileDeleted |-> TRUE]),
                 db |-> [db EXCEPT !.disk = @ \ {f.loc.fileUpload.file_path}]]
    [] f.pc = "delete_record" ->
         [f |-> Return(f, DeleteRowCount(db.file_uploads, id) > 0 /\ f.loc.fileDeleted),
          db |-> [db EXCEPT !.file_uploads = DeleteRow(@, id)]]

(***************************************************************************)
(* Running a call                                                          *)
(***************************************************************************)
FirstPc(op) ==
  CASE op = "createBudgetRequest" -> "insert_request"
    [] op = "createBudgetItem" -> "select_request"
    [] op = "updateBudgetItem" -> "select_item"
    [] op = "deleteBudgetItem" -> "select_item"
    [] op = "submitBudgetRequest" -> "select_request"
    [] op = "updateBudgetRequest" -> "select_request"
    [] op = "uploadFile" -> "select_request"
    [] op = "deleteFileUpload" -> "select_file"
    [] op = "getBudgetRequests" -> "select_page"
    [] op = "getBudgetRequestById" -> "select_request"
    [] op = "getBudgetItems" -> "select_items"

Call(op, input) == Begin(op, input, FirstPc(op))

\* One awaited statement of the call f against the store db at time t
Step(f, db, t) ==
  CASE f.op = "createBudgetRequest" -> createBudgetRequestStep(f, db, t)
    [] f.op = "createBudgetItem" -> createBudgetItemStep(f, db, t)
    [] f.op = "updateBudgetItem" -> updateBudgetItemStep(f, db, t)
    [] f.op = "deleteBudgetItem" -> deleteBudgetItemStep(f, db, t)
    [] f.op = "submitBudgetRequest" -> submitBudgetRequestStep(f, db, t)
    [] f.op = "updateBudgetRequest" -> updateBudgetRequestStep(f, db, t)
    [] f.op = "uploadFile" -> uploadFileStep(f, db, t)
    [] f.op = "deleteFileUpload" -> deleteFileUploadStep(f, db, t)
    [] f.op = "getBudgetRequests" -> getBudgetRequestsStep(f, db, t)
    [] f.op = "getBudgetRequestById" -> getBudgetRequestByIdStep(f, db, t)
    [] f.op = "getBudgetItems" -> getBudgetItemsStep(f, db, t)

\* The call run to completion with nothing interleaved
RECURSIVE Run(_, _, _)
Run(f, db, t) ==
  IF f.pc = "return" THEN [f |-> f, db |-> db]
  ELSE LET s == Step(f, db, t) IN Run(s.f, s.db, t)

(***************************************************************************)
(* Input validation: each procedure parses its input with a zod schema     *)
(* before the handler runs.  Amounts are in thousandths, as everywhere; a  *)
(* quantity arrives as a number too and is in thousandths until parsed.    *)
(***************************************************************************)
budgetCategory ==
  {"personnel", "goods_services", "capital_expenditure", "operational",
   "maintenance", "training", "travel", "other"}

priorityLevel == {"critical", "high", "medium", "low"}

\* z.string().email(): local part, "@", domain with a dot
IsEmail(v) ==
  \E i \in 2..Len(v) : /\ v[i] = "@"
                       /\ \E j \in (i + 2)..(Len(v) - 1) : v[j] = "."

\* z.number().int()
IsInt(x) == x % 1000 = 0

\* Faulty variant: a total has only to be non-negative
ValidRequestField_NonNegativeTotal(c, v) ==
  CASE c \in {"department_name", "contact_person", "request_title"} -> Len(v) >= 1
    [] c \in {"request_description", "expected_outcomes"} -> Len(v) >= 10
    [] c = "justification" -> Len(v) >= 20
    [] c = "contact_email" -> IsEmail(v)
    [] c = "fiscal_year" -> v >= 2020 /\ v <= 2050
    [] c = "total_amount" -> v >= 0
    [] c = "priority_level" -> v \in priorityLevel
    [] c = "status" -> v \in budgetRequestStatus
    [] OTHER -> TRUE

\* The fields that createBudgetRequestInputSchema and
\* updateBudgetRequestInputSchema constrain alike
ValidRequestField(c, v) ==
  CASE c \in {"department_name", "contact_person", "request_title"} -> Len(v) >= 1
    [] c \in {"request_description", "expected_outcomes"} -> Len(v) >= 10
    [] c = "justification" -> Len(v) >= 20
    [] c = "contact_email" -> IsEmail(v)
    [] c = "fiscal_year" -> v >= 2020 /\ v <= 2050
    [] c = "total_amount" -> v > 0
    [] c = "priority_level" -> v \in priorityLevel
    [] c = "status" -> v \in budgetRequestStatus
    [] OTHER -> TRUE

\* The fields that createBudgetItemInputSchema and updateBudgetItemInputSchema
\* constrain alike
ValidItemField(c, v) ==
  CASE c = "category" -> v \in budgetCategory
    [] c = "description" -> Len(v) >= 1
    [] c = "quantity" -> v = Null \/ (IsInt(v[1]) /\ v[1] > 0)
    [] c \in {"unit_cost", "total_cost"} -> v > 0
    [] OTHER -> TRUE

createBudgetRequestFields ==
  {"department_name", "department_code", "contact_person", "contact_email",
   "contact_phone", "fiscal_year", "request_title", "request_description",
   "total_amount", "priority_level", "justification", "expected_outcomes",
   "timeline_start", "timeline_end"}

createBudgetItemFields ==
  {"budget_request_id", "category", "description", "unit", "quantity", "unit_cost",
   "total_cost", "justification"}

\* The fields that createFileUploadInputSchema constrains
ValidFileField(c, v) ==
  CASE c \in {"filename", "original_filename"} -> Len(v) >= 1
    [] c \in {"file_path", "mime_type"} -> v # ""
    [] c = "file_size" -> v > 0
    [] OTHER -> TRUE

createFileUploadFields ==
  {"budget_request_id", "filename", "original_filename", "file_path", "file_size",
   "mime_type"}

\* The fields a procedure's schema requires to be present
RequiredFields(op) ==
  CASE op = "createBudgetRequest" -> createBudgetRequestFields
    [] op = "createBudgetItem" -> createBudgetItemFields
    [] op = "uploadFile" -> createFileUploadFields
    [] op \in {"updateBudgetRequest", "updateBudgetItem"} -> {"id"}

\* Whether the procedure's schema accepts the value of one field
ValidField(op, c, v) ==
  CASE op \in {"createBudgetRequest", "updateBudgetRequest"} -> ValidRequestField(c, v)
    [] op \in {"createBudgetItem", "updateBudgetItem"} -> ValidItemField(c, v)
    [] op = "uploadFile" -> ValidFileField(c, v)

\* Faulty variant: parsing stops at the first field it refuses
Issues_FirstOnly(op, raw) ==
  LET all == (RequiredFields(op) \ DOMAIN raw)
               \cup {c \in DOMAIN raw : ~ValidField(op, c, raw[c])}
  IN  IF all = {} THEN {} ELSE {CHOOSE c \in all : TRUE}

\* schema.parse(raw): the fields of every issue the schema raises, those
\* missing and those whose value it refuses
Issues(op, raw) ==
  (RequiredFields(op) \ DOMAIN raw)
    \cup {c \in DOMAIN raw : ~ValidField(op, c, raw[c])}

\* Whether the procedure's schema lets the raw input through
InputValid(op, raw) == Issues(op, raw) = {}

\* The parsed input the handler receives
ParsedInput(op, raw) ==
  CASE op = "createBudgetRequest" -> createBudgetRequestInputSchema(raw)
    [] op \in {"updateBudgetRequest", "uploadFile"} -> raw
    [] op \in {"createBudgetItem", "updateBudgetItem"} ->
         [c \in DOMAIN raw |->
            IF c = "quantity" /\ raw[c] # Null THEN Some(raw[c][1] \div 1000) ELSE raw[c]]

\* publicProcedure.input(schema).mutation(handler): a raw input the schema
\* refuses never reaches the handler, and the error carries every issue
Procedure(op, raw, db, t) ==
  IF InputValid(op, raw)
    THEN Run(Call(op, ParsedInput(op, raw)), db, t)
    ELSE [f |-> Throw(Call(op, raw), <<"BAD_REQUEST", Issues(op, raw)>>), db |-> db]

(***************************************************************************)
(* Inputs                                                                  *)
(***************************************************************************)
Callers == 1..MaxCallers
RequestIds == 1..MaxRequests
ItemIds == 1..MaxItems
FileIds == 1..MaxFiles

validRequest ==
  [department_name |-> Txt(1), department_code |-> Null,
   contact_person |-> Txt(1), contact_email |-> <<"a", "@", "a", ".", "a">>,
   contact_phone |-> Null, fiscal_year |-> 2024,
   request_title |-> Txt(1), request_description |-> Txt(10),
   total_amount |-> 1000, priority_level |-> "medium",
   justification |-> Txt(20), expected_outcomes |-> Txt(10),
   timeline_start |-> Null, timeline_end |-> Null, status |-> "draft"]

\* Schema-valid create payloads: any status
CreateBudgetRequestInputs ==
  {[validRequest EXCEPT !.status = st] : st \in budgetRequestStatus}

\* What a caller sends: a status, or none
RawCreateBudgetRequestInputs ==
  CreateBudgetRequestInputs
    \cup {[c \in DOMAIN validRequest \ {"status"} |-> validRequest[c]]}

UpdateBudgetRequestInputs ==
  {[id |-> id, status |-> st] : id \in RequestIds, st \in {"approved", "rejected"}}
    \cup {[id |-> id, total_amount |-> 3000] : id \in RequestIds}

ItemCosts == {1000, 2500}

CreateBudgetItemInputs ==
  {[budget_request_id |-> rid, category |-> "operational", description |-> Txt(1),
    unit |-> Null, quantity |-> Some(2), unit_cost |-> 500, total_cost |-> cost,
    justification |-> Null] : rid \in RequestIds, cost \in ItemCosts}

UpdateBudgetItemInputs ==
  {[id |-> id, total_cost |-> 1500] : id \in ItemIds}
    \cup {[id |-> id, unit_cost |-> 1000] : id \in ItemIds}

FilePaths == {"/uploads/a.pdf"}

UploadFileInputs ==
  {[budget_request_id |-> rid, filename |-> Txt(1), original_filename |-> Txt(1),
    file_path |-> path, file_size |-> size, mime_type |-> mime] :
     rid \in RequestIds, path \in FilePaths,
     size \in {1, maxFileSize, maxFileSize + 1},
     mime \in {"application/pdf", "application/x-executable"}}

DeleteFileUploadInputs == {[id |-> id, unlink_fails |-> b] : id \in FileIds, b \in BOOLEAN}

(***************************************************************************)
(* Initial state: empty tables                                             *)
(***************************************************************************)
Init ==
  /\ budget_requests = <<>>
  /\ budget_items = <<>>
  /\ file_uploads = <<>>
  /\ seqs = [budget_requests |-> 0, budget_items |-> 0, file_uploads |-> 0]
  /\ disk = {}
  /\ now = 0
  /\ procs = [p \in Callers |-> Idle]
  /\ ClientIdle

(***************************************************************************)
(* One caller: each handler runs to completion                             *)
(***************************************************************************)
Commit(db) ==
  /\ budget_requests' = db.budget_requests
  /\ budget_items' = db.budget_items
  /\ file_uploads' = db.file_uploads
  /\ seqs' = db.seqs
  /\ disk' = db.disk

\* The store after the call has run to completion
Handle(op, input) == Run(Call(op, input), DB, now).db

CreateBudgetRequest ==
  /\ seqs.budget_requests < MaxRequests
  /\ \E input \in CreateBudgetRequestInputs :
       /\ Commit(Handle("createBudgetRequest", input))
       /\ UNCHANGED <<now, procs, clientVars>>

UpdateBudgetRequest ==
  \E input \in UpdateBudgetRequestInputs :
       /\ Commit(Handle("updateBudgetRequest", input))
       /\ UNCHANGED <<now, procs, clientVars>>

SubmitBudgetRequest ==
  \E id \in RequestIds :
       /\ Commit(Handle("submitBudgetRequest", id))
       /\ UNCHANGED <<now, procs, clientVars>>

CreateBudgetItem ==
  /\ seqs.budget_items < MaxItems
  /\ \E input \in CreateBudgetItemInputs :
       /\ Commit(Handle("createBudgetItem", input))
       /\ UNCHANGED <<now, procs, clientVars>>

UpdateBudgetItem ==
  \E input \in UpdateBudgetItemInputs :
       /\ Commit(Handle("updateBudgetItem", input))
       /\ UNCHANGED <<now, procs, clientVars>>

DeleteBudgetItem ==
  \E id \in ItemIds :
       /\ Commit(Handle("deleteBudgetItem", id))
       /\ UNCHANGED <<now, procs, clientVars>>

UploadFile ==
  /\ seqs.file_uploads < MaxFiles
  /\ \E input \in UploadFileInputs :
       /\ Commit(Handle("uploadFile", input))
       /\ UNCHANGED <<now, procs, clientVars>>

DeleteFileUpload ==
  \E input \in DeleteFileUploadInputs :
       /\ Commit(Handle("deleteFileUpload", input))
       /\ UNCHANGED <<now, procs, clientVars>>

\* The caller of uploadFile places the bytes at the path
PlaceFile ==
  /\ \E path \in FilePaths : path \notin disk /\ disk' = disk \cup {path}
  /\ UNCHANGED <<budget_requests, budget_items, file_uploads, seqs, now, procs, clientVars>>

Tick ==
  /\ now < MaxTime
  /\ now' = now + 1
  /\ UNCHANGED <<budget_requests, budget_items, file_uploads, seqs, disk, procs, clientVars>>

ItemTieOrders == {r \in [ItemIds -> ItemIds] : \A a, b \in ItemIds : r[a] = r[b] => a = b}

GetBudgetRequestById ==
  \E id \in RequestIds :
       /\ Commit(Handle("getBudgetRequestById", id))
       /\ UNCHANGED <<now, procs, clientVars>>

GetBudgetItems ==
  \E rid \in RequestIds, ties \in ItemTieOrders :
       /\ Commit(Handle("getBudgetItems", [budgetRequestId |-> rid, ties |-> ties]))
       /\ UNCHANGED <<now, procs, clientVars>>

Next ==
  \/ CreateBudgetRequest
  \/ UpdateBudgetRequest
  \/ SubmitBudgetRequest
  \/ CreateBudgetItem
  \/ UpdateBudgetItem
  \/ DeleteBudgetItem
  \/ GetBudgetRequestById
  \/ GetBudgetItems

Spec == Init /\ [][Next]_vars

(***************************************************************************)
(* The client's FileUploadSection: the list of selected files.  A handler  *)
(* reads the files of the render it was created in; the list it reads is   *)
(* the list at the time of the event.                                      *)
(***************************************************************************)
\* The maxFiles prop (10 when the parent passes none)
maxFiles == 2

\* The maxFileSize prop, in MB
maxFileSizeMB == 50

acceptedTypes ==
  {"application/pdf",
   "application/vnd.ms-excel",
   "application/vnd.openxmlformats-officedocument.spreadsheetml.sheet",
   "application/msword",
   "application/vnd.openxmlformats-officedocument.wordprocessingml.document",
   "image/jpeg",
   "image/png"}

\* Most files in one selection, and the length up to which the list is followed
MaxSelected == 3
MaxListed == 4

\* validateFile against the rendered list fs: the message, or null
validateFile(fs, file) ==
  IF file.size > maxFileSizeMB * 1024 * 1024
    THEN <<"File size must be less than {}MB", maxFileSizeMB>>
  ELSE IF file.type \notin acceptedTypes
    THEN <<"File type not supported">>
  ELSE IF Len(fs) >= maxFiles
    THEN <<"Maximum {} files allowed", maxFiles>>
  ELSE Null

\* handleFileSelect on the rendered list fs: every file of the selection is
\* validated against fs, the accepted ones are appended together, and the
\* error shown is that of the last refused file
handleFileSelect(fs, selectedFiles) ==
  LET Accepted(file) == validateFile(fs, file) = Null
      newFiles == [i \in 1..Len(SelectSeq(selectedFiles, Accepted)) |->
                     [size |-> SelectSeq(selectedFiles, Accepted)[i].size,
                      type |-> SelectSeq(selectedFiles, Accepted)[i].type,
                      status |-> "pending"]]
      refused == {i \in 1..Len(selectedFiles) : ~Accepted(selectedFiles[i])}
  IN  [files |-> fs \o newFiles,
       uploadError |-> IF refused = {} THEN Null
                       ELSE validateFile(fs, selectedFiles[
                              CHOOSE i \in refused : \A j \in refused : j <= i])]

\* removeFile(index), index counted from 0
removeFile(fs, index) ==
  IF index + 1 \in 1..Len(fs)
    THEN [i \in 1..(Len(fs) - 1) |-> IF i < index + 1 THEN fs[i] ELSE fs[i + 1]]
    ELSE fs

\* The File objects a user can pick
PickedFiles ==
  {[size |-> 1, type |-> "application/pdf"],
   [size |-> 1, type |-> "image/png"],
   [size |-> maxFileSizeMB * 1024 * 1024 + 1, type |-> "application/pdf"],
   [size |-> 1, type |-> "text/plain"]}

\* A FileList: one or several files chosen or dropped at once
Selections == UNION {[1..n -> PickedFiles] : n \in 1..MaxSelected}

ServerUnchanged ==
  UNCHANGED <<budget_requests, budget_items, file_uploads, seqs, disk, now, procs>>

\* onChange of the file input (e.target.files)
HandleFileSelect ==
  /\ \E selectedFiles \in Selections :
       /\ Len(files) + Len(selectedFiles) <= MaxListed
       /\ files' = handleFileSelect(files, selectedFiles).files
       /\ uploadError' = handleFileSelect(files, selectedFiles).uploadError
  /\ UNCHANGED isDragging
  /\ ServerUnchanged

\* A file input without a FileList: handleFileSelect(null) returns at once
HandleFileSelectNull ==
  /\ UNCHANGED clientVars
  /\ ServerUnchanged

HandleDragOver ==
  /\ isDragging' = TRUE
  /\ UNCHANGED <<files, uploadError>>
  /\ ServerUnchanged

HandleDragLeave ==
  /\ isDragging' = FALSE
  /\ UNCHANGED <<files, uploadError>>
  /\ ServerUnchanged

\* onDrop (e.dataTransfer.files)
HandleDrop ==
  /\ \E selectedFiles \in Selections :
       /\ Len(files) + Len(selectedFiles) <= MaxListed
       /\ files' = handleFileSelect(files, selectedFiles).files
       /\ uploadError' = handleFileSelect(files, selectedFiles).uploadError
  /\ isDragging' = FALSE
  /\ ServerUnchanged

\* The remove button of the entry at index
RemoveFile ==
  /\ \E index \in 0..(Len(files) - 1) : files' = removeFile(files, index)
  /\ UNCHANGED <<isDragging, uploadError>>
  /\ ServerUnchanged

NextClient ==
  \/ HandleFileSelect
  \/ HandleFileSelectNull
  \/ HandleDragOver
  \/ HandleDragLeave
  \/ HandleDrop
  \/ RemoveFile

SpecClient == Init /\ [][NextClient]_vars

(***************************************************************************)
(* Submission over stored rows.  The store starts with one request row     *)
(* drawn from what the budget_requests columns admit (text NOT NULL, any   *)
(* status, any numeric total), as the handler's callers seed it.           *)
(***************************************************************************)
StoredTexts == {<<>>, Ws(1), Txt(1)}
StoredPaddedTexts == {<<>>, Ws(2), <<" ", "a", " ">>}
StoredTotals == {-10000, 0, 1500050}

StoredRequests ==
  {[id |-> 1,
    department_name |-> dn, department_code |-> Null,
    contact_person |-> cp, contact_email |-> ce,
    contact_phone |-> Null, fiscal_year |-> 2024,
    request_title |-> rt, request_description |-> rd,
    total_amount |-> ta, priority_level |-> "medium",
    justification |-> ju, expected_outcomes |-> eo,
    timeline_start |-> Null, timeline_end |-> Null, status |-> st,
    submitted_at |-> Null, reviewed_at |-> Null, reviewer_notes |-> Null,
    created_at |-> 0, updated_at |-> 0] :
     dn \in StoredPaddedTexts, cp \in StoredTexts, ce \in StoredTexts,
     rt \in StoredTexts, rd \in StoredTexts, ju \in StoredTexts,
     eo \in StoredTexts, ta \in StoredTotals, st \in budgetRequestStatus}

\* One item and one file stored under the request
StoredItem ==
  [id |-> 1, budget_request_id |-> 1, category |-> "operational",
   description |-> Txt(1), unit |-> Null, quantity |-> Some(2),
   unit_cost |-> 50, total_cost |-> 100, justification |-> Null, created_at |-> 0]

StoredFile ==
  [id |-> 1, budget_request_id |-> 1, filename |-> Txt(1),
   original_filename |-> Txt(1), file_path |-> "/uploads/a.pdf",
   file_size |-> 1, mime_type |-> "application/pdf", uploaded_at |-> 0]

InitSubmit ==
  /\ \E row \in StoredRequests : budget_requests = InsertRow(<<>>, row)
  /\ budget_items = InsertRow(<<>>, StoredItem)
  /\ file_uploads = InsertRow(<<>>, StoredFile)
  /\ seqs = [budget_requests |-> 1, budget_items |-> 1, file_uploads |-> 1]
  /\ disk = {StoredFile.file_path}
  /\ now = 0
  /\ procs = [p \in Callers |-> Idle]
  /\ ClientIdle

NextSubmit ==
  \/ SubmitBudgetRequest
  \/ Tick

SpecSubmit == InitSubmit /\ [][NextSubmit]_vars

(***************************************************************************)
(* Item updates over stored rows: one request in any status with two       *)
(* items under it, one of them without a quantity.                         *)
(***************************************************************************)
StoredItemRequests ==
  {[validRequest EXCEPT !.status = st, !.total_amount = 150] @@
     [id |-> 1, submitted_at |-> Null, reviewed_at |-> Null, reviewer_notes |-> Null,
      created_at |-> 0, updated_at |-> 0] : st \in budgetRequestStatus}

StoredItems ==
  InsertRow(InsertRow(<<>>, StoredItem),
            [StoredItem EXCEPT !.id = 2, !.quantity = Null, !.total_cost = 50,
                               !.unit = Some(Txt(1))])

ItemUpdateIds == 1..3

\* Schema-valid partial updates, in native numbers
ItemUpdateInputs ==
  UNION {{[id |-> id, total_cost |-> 1500],
          [id |-> id, unit_cost |-> 1000],
          [id |-> id, quantity |-> Some(3)],
          [id |-> id, quantity |-> Null],
          [id |-> id, unit_cost |-> 1000, quantity |-> Some(3)],
          [id |-> id, unit_cost |-> 1000, quantity |-> Some(3), total_cost |-> 1500],
          [id |-> id, description |-> Txt(2)],
          [id |-> id, category |-> "personnel", unit |-> Null,
           justification |-> Some(Txt(1))]} : id \in ItemUpdateIds}

InitItemUpdate ==
  /\ \E row \in StoredItemRequests : budget_requests = InsertRow(<<>>, row)
  /\ budget_items = StoredItems
  /\ file_uploads = <<>>
  /\ seqs = [budget_requests |-> 1, budget_items |-> 2, file_uploads |-> 0]
  /\ disk = {}
  /\ now = 0
  /\ procs = [p \in Callers |-> Idle]
  /\ ClientIdle

UpdateStoredItem ==
  \E input \in ItemUpdateInputs :
       /\ Commit(Handle("updateBudgetItem", input))
       /\ UNCHANGED <<now, procs, clientVars>>

NextItemUpdate ==
  \/ UpdateStoredItem
  \/ Tick

SpecItemUpdate == InitItemUpdate /\ [][NextItemUpdate]_vars

(***************************************************************************)
(* Request updates over stored rows: one request in any status whose       *)
(* nullable columns are all filled.                                        *)
(***************************************************************************)
StoredFilledRequests ==
  {[validRequest EXCEPT !.status = st, !.department_code = Some(Txt(1)),
                        !.contact_phone = Some(Txt(1)), !.timeline_start = Some(0),
                        !.timeline_end = Some(0), !.total_amount = 100] @@
     [id |-> 1, submitted_at |-> Some(0), reviewed_at |-> Some(0),
      reviewer_notes |-> Some(Txt(1)), created_at |-> 0, updated_at |-> 0] :
     st \in budgetRequestStatus}

RequestUpdateIds == 1..2

\* Schema-valid partial updates, in native numbers
RequestUpdateInputs ==
  UNION {{[id |-> id],
          [id |-> id, department_code |-> Null],
          [id |-> id, contact_phone |-> Null, timeline_start |-> Null,
           timeline_end |-> Null, reviewer_notes |-> Null],
          [id |-> id, department_code |-> Some(Txt(2)), reviewer_notes |-> Some(Txt(2))],
          [id |-> id, department_name |-> Txt(2), fiscal_year |-> 2025],
          [id |-> id, total_amount |-> 3000]}
           \cup {[id |-> id, status |-> st] : st \in budgetRequestStatus} :
         id \in RequestUpdateIds}

InitRequestUpdate ==
  /\ \E row \in StoredFilledRequests : budget_requests = InsertRow(<<>>, row)
  /\ budget_items = InsertRow(<<>>, StoredItem)
  /\ file_uploads = InsertRow(<<>>, StoredFile)
  /\ seqs = [budget_requests |-> 1, budget_items |-> 1, file_uploads |-> 1]
  /\ disk = {StoredFile.file_path}
  /\ now = 0
  /\ procs = [p \in Callers |-> Idle]
  /\ ClientIdle

UpdateStoredRequest ==
  \E input \in RequestUpdateInputs :
       /\ Commit(Handle("updateBudgetRequest", input))
       /\ UNCHANGED <<now, procs, clientVars>>

NextRequestUpdate ==
  \/ UpdateStoredRequest
  \/ Tick

SpecRequestUpdate == InitRequestUpdate /\ [][NextRequestUpdate]_vars

(***************************************************************************)
(* Listing: requests of several departments, years, statuses and           *)
(* priorities are created over time and listed with every query the        *)
(* schema lets through.                                                    *)
(***************************************************************************)
ListedRequestInputs ==
  {[validRequest EXCEPT !.department_name = dn, !.fiscal_year = fy,
                        !.status = st, !.priority_level = pl] :
     dn \in {Txt(1), Txt(2)}, fy \in {2024, 2025},
     st \in {"draft", "approved"}, pl \in {"medium", "high"}}

\* One optional field of a query: left out, or one of vals
Optional(name, vals) == {<<>>} \cup {[c \in {name} |-> v] : v \in vals}

QueryLimits == {1, 2, 100}
QueryOffsets == 0..(MaxRequests + 1)

\* The orders in which the database may return rows with equal created_at
TieOrders == {r \in [RequestIds -> RequestIds] : \A a, b \in RequestIds : r[a] = r[b] => a = b}

QueryFilters ==
  {dn @@ fy @@ st @@ pl :
     dn \in Optional("department_name", {<<>>, Txt(1), Txt(2)}),
     fy \in Optional("fiscal_year", {2024, 2025}),
     st \in Optional("status", {"draft", "approved"}),
     pl \in Optional("priority_level", {"medium", "high"})}

Query(filter, limit, offset, ties) ==
  filter @@ [limit |-> limit, offset |-> offset, ties |-> ties]

GetBudgetRequestsQueries ==
  {Query(filter, limit, offset, ties) :
     filter \in QueryFilters, limit \in QueryLimits, offset \in QueryOffsets,
     ties \in TieOrders}

CreateListedRequest ==
  /\ seqs.budget_requests < MaxRequests
  /\ \E input \in ListedRequestInputs :
       /\ Commit(Handle("createBudgetRequest", input))
       /\ UNCHANGED <<now, procs, clientVars>>

GetBudgetRequests ==
  \E query \in GetBudgetRequestsQueries :
       /\ Commit(Handle("getBudgetRequests", query))
       /\ UNCHANGED <<now, procs, clientVars>>

NextQuery ==
  \/ CreateListedRequest
  \/ GetBudgetRequests
  \/ Tick

SpecQuery == Init /\ [][NextQuery]_vars

(***************************************************************************)
(* The procedures with raw inputs, valid or not                            *)
(***************************************************************************)
RawTotals == {-1000, 0, 10, 1000}
RawCosts == {-500, 0, 500}
RawQuantities == {Null, Some(2000), Some(1500), Some(0), Some(-1000)}

RawCreateRequests == {[validRequest EXCEPT !.total_amount = ta] : ta \in RawTotals}

RawUpdateRequests == {[id |-> id, total_amount |-> ta] : id \in RequestIds, ta \in RawTotals}

RawCreateItems ==
  {[budget_request_id |-> rid, category |-> "operational", description |-> Txt(1),
    unit |-> Null, quantity |-> q, unit_cost |-> uc, total_cost |-> tc,
    justification |-> Null] :
     rid \in RequestIds, q \in RawQuantities, uc \in RawCosts, tc \in RawCosts}

RawUpdateItems ==
  UNION {{[id |-> id, unit_cost |-> c] : c \in RawCosts}
           \cup {[id |-> id, total_cost |-> c] : c \in RawCosts}
           \cup {[id |-> id, quantity |-> q] : q \in RawQuantities} : id \in ItemIds}

RawUploadFiles ==
  {[budget_request_id |-> rid, filename |-> Txt(1), original_filename |-> Txt(1),
    file_path |-> "/uploads/a.pdf", file_size |-> size, mime_type |-> "application/pdf"] :
     rid \in RequestIds, size \in {0, 1}}

\* A payload with the fields in B replaced by values its schema refuses and
\* the fields in M left out
Spoil(valid, bad, B, M) ==
  [c \in DOMAIN valid \ M |-> IF c \in B THEN bad[c] ELSE valid[c]]

badRequestValues ==
  [department_name |-> <<>>, contact_email |-> Txt(1), fiscal_year |-> 2019,
   total_amount |-> 0, status |-> "archived"]

badItemValues ==
  [category |-> "misc", description |-> <<>>, quantity |-> Some(1500),
   unit_cost |-> 0, total_cost |-> -500]

badFileValues == [filename |-> <<>>, file_size |-> 0, mime_type |-> ""]

validItem ==
  [budget_request_id |-> 1, category |-> "operational", description |-> Txt(1),
   unit |-> Null, quantity |-> Some(2000), unit_cost |-> 500, total_cost |-> 1000,
   justification |-> Null]

validFile ==
  [budget_request_id |-> 1, filename |-> Txt(1), original_filename |-> Txt(1),
   file_path |-> "/uploads/a.pdf", file_size |-> 1, mime_type |-> "application/pdf"]

\* Payloads of each procedure with a known set of offending fields: op, the
\* raw input, and the fields spoiled or left out
SpoiledPayloads ==
  {[op |-> "createBudgetRequest", raw |-> Spoil(validRequest, badRequestValues, B, M),
    bad |-> B \cup M] :
     B \in SUBSET DOMAIN badRequestValues, M \in SUBSET {"contact_person"}}
    \cup {[op |-> "updateBudgetRequest",
           raw |-> Spoil([c \in {"id"} \cup DOMAIN badRequestValues |->
                            IF c = "id" THEN id ELSE validRequest[c]],
                         badRequestValues, B, {}),
           bad |-> B] : B \in SUBSET DOMAIN badRequestValues, id \in RequestIds}
    \cup {[op |-> "createBudgetItem", raw |-> Spoil(validItem, badItemValues, B, M),
           bad |-> B \cup M] :
            B \in SUBSET DOMAIN badItemValues, M \in SUBSET {"justification"}}
    \cup {[op |-> "updateBudgetItem",
           raw |-> Spoil([c \in {"id"} \cup DOMAIN badItemValues |->
                            IF c = "id" THEN id ELSE validItem[c]],
                         badItemValues, B, {}),
           bad |-> B] : B \in SUBSET DOMAIN badItemValues, id \in ItemIds}
    \cup {[op |-> "uploadFile", raw |-> Spoil(validFile, badFileValues, B, M),
           bad |-> B \cup M] :
            B \in SUBSET DOMAIN badFileValues, M \in SUBSET {"file_path"}}

Spoiled(op) == {p.raw : p \in {q \in SpoiledPayloads : q.op = op /\ q.bad # {}}}

CallCreateBudgetRequest ==
  /\ seqs.budget_requests < MaxRequests
  /\ \E raw \in RawCreateRequests \cup Spoiled("createBudgetRequest") :
       /\ Commit(Procedure("createBudgetRequest", raw, DB, now).db)
       /\ UNCHANGED <<now, procs, clientVars>>

CallUpdateBudgetRequest ==
  \E raw \in RawUpdateRequests \cup Spoiled("updateBudgetRequest") :
       /\ Commit(Procedure("updateBudgetRequest", raw, DB, now).db)
       /\ UNCHANGED <<now, procs, clientVars>>

CallCreateBudgetItem ==
  /\ seqs.budget_items < MaxItems
  /\ \E raw \in RawCreateItems \cup Spoiled("createBudgetItem") :
       /\ Commit(Procedure("createBudgetItem", raw, DB, now).db)
       /\ UNCHANGED <<now, procs, clientVars>>

CallUpdateBudgetItem ==
  \E raw \in RawUpdateItems \cup Spoiled("updateBudgetItem") :
       /\ Commit(Procedure("updateBudgetItem", raw, DB, now).db)
       /\ UNCHANGED <<now, procs, clientVars>>

CallUploadFile ==
  /\ seqs.file_uploads < MaxFiles
  /\ \E raw \in RawUploadFiles \cup Spoiled("uploadFile") :
       /\ Commit(Procedure("uploadFile", raw, DB, now).db)
       /\ UNCHANGED <<now, procs, clientVars>>

NextProcedures ==
  \/ CallCreateBudgetRequest
  \/ CallUpdateBudgetRequest
  \/ CallCreateBudgetItem
  \/ CallUpdateBudgetItem
  \/ CallUploadFile

SpecProcedures == Init /\ [][NextProcedures]_vars

(***************************************************************************)
(* Requests and their files, one caller                                    *)
(***************************************************************************)
NextFiles ==
  \/ CreateBudgetRequest
  \/ UpdateBudgetRequest
  \/ UploadFile
  \/ DeleteFileUpload
  \/ PlaceFile

SpecFiles == Init /\ [][NextFiles]_vars

(***************************************************************************)
(* Two stored requests with their items and a file: request 1 in any       *)
(* status, request 2 a draft or approved, one item under request 1, a      *)
(* second item and the file under either request.                          *)
(***************************************************************************)
StoredRequestRow(id, st) ==
  [validRequest EXCEPT !.status = st, !.total_amount = 200] @@
    [id |-> id, submitted_at |-> Null, reviewed_at |-> Null, reviewer_notes |-> Null,
     created_at |-> 0, updated_at |-> 0]

InitFrame ==
  /\ \E st1 \in budgetRequestStatus, st2 \in {"draft", "approved"} :
       budget_requests = InsertRow(InsertRow(<<>>, StoredRequestRow(1, st1)),
                                   StoredRequestRow(2, st2))
  /\ \E rid \in RequestIds :
       budget_items = InsertRow(InsertRow(<<>>, StoredItem),
                                [StoredItem EXCEPT !.id = 2, !.budget_request_id = rid])
  /\ \E rid \in RequestIds :
       file_uploads = InsertRow(<<>>, [StoredFile EXCEPT !.budget_request_id = rid])
  /\ seqs = [budget_requests |-> 2, budget_items |-> 2, file_uploads |-> 1]
  /\ disk = {StoredFile.file_path}
  /\ now = 0
  /\ procs = [p \in Callers |-> Idle]
  /\ ClientIdle

NextFrame ==
  \/ UpdateBudgetRequest
  \/ SubmitBudgetRequest
  \/ DeleteBudgetItem
  \/ DeleteFileUpload
  \/ Tick

SpecFrame == InitFrame /\ [][NextFrame]_vars

(***************************************************************************)
(* Several callers: the server runs handlers as async functions, so the    *)
(* awaited statements of calls in flight interleave.  Each statement is    *)
(* its own autocommitted write; no handler opens a transaction.            *)
(***************************************************************************)
InFlight(op) ==
  Cardinality({p \in Callers : procs[p].op = op /\ procs[p].pc # "return"})

Invoke(p, op, input) ==
  /\ procs' = [procs EXCEPT ![p] = Call(op, input)]
  /\ UNCHANGED <<budget_requests, budget_items, file_uploads, seqs, disk, now, clientVars>>

\* The next awaited statement of caller p's call
Advance(p) ==
  /\ LET s == Step(procs[p], DB, now)
     IN /\ Commit(s.db)
        /\ procs' = [procs EXCEPT ![p] = s.f]
  /\ UNCHANGED <<now, clientVars>>

ConcRequestIds == 1..MaxConcRequests
ConcCreateBudgetRequestInputs == {validRequest}
ConcUpdateBudgetRequestInputs == {[id |-> id, status |-> "approved"] : id \in ConcRequestIds}
ConcCreateBudgetItemInputs ==
  {i \in CreateBudgetItemInputs : i.total_cost = 1000 /\ i.budget_request_id \in ConcRequestIds}
ConcUploadFileInputs ==
  {i \in UploadFileInputs : /\ i.file_size = 1
                            /\ i.mime_type = "application/pdf"
                            /\ i.budget_request_id \in ConcRequestIds}
ConcDeleteFileUploadInputs == {i \in DeleteFileUploadInputs : ~i.unlink_fails}

InvokeCreateBudgetRequest ==
  /\ seqs.budget_requests + InFlight("createBudgetRequest") < MaxConcRequests
  /\ \E p \in Callers, input \in ConcCreateBudgetRequestInputs :
       procs[p] = Idle /\ Invoke(p, "createBudgetRequest", input)

InvokeUpdateBudgetRequest ==
  \E p \in Callers, input \in ConcUpdateBudgetRequestInputs :
    /\ procs[p] = Idle
    /\ Invoke(p, "updateBudgetRequest", input)

InvokeSubmitBudgetRequest ==
  \E p \in Callers, id \in ConcRequestIds :
    /\ procs[p] = Idle
    /\ Invoke(p, "submitBudgetRequest", id)

InvokeCreateBudgetItem ==
  /\ seqs.budget_items + InFlight("createBudgetItem") < MaxItems
  /\ \E p \in Callers, input \in ConcCreateBudgetItemInputs :
       procs[p] = Idle /\ Invoke(p, "createBudgetItem", input)

InvokeDeleteBudgetItem ==
  \E p \in Callers, id \in ItemIds :
    /\ procs[p] = Idle
    /\ Invoke(p, "deleteBudgetItem", id)

InvokeUploadFile ==
  /\ seqs.file_uploads + InFlight("uploadFile") < MaxFiles
  /\ \E p \in Callers, input \in ConcUploadFileInputs :
       procs[p] = Idle /\ Invoke(p, "uploadFile", input)

InvokeDeleteFileUpload ==
  \E p \in Callers, input \in ConcDeleteFileUploadInputs :
    /\ procs[p] = Idle
    /\ Invoke(p, "deleteFileUpload", input)

StepCreateBudgetRequest ==
  \E p \in Callers :
    /\ procs[p].op = "createBudgetRequest" /\ procs[p].pc # "return"
    /\ Advance(p)
StepUpdateBudgetRequest ==
  \E p \in Callers :
    /\ procs[p].op = "updateBudgetRequest" /\ procs[p].pc # "return"
    /\ Advance(p)
StepSubmitBudgetRequest ==
  \E p \in Callers :
    /\ procs[p].op = "submitBudgetRequest" /\ procs[p].pc # "return"
    /\ Advance(p)
StepCreateBudgetItem ==
  \E p \in Callers :
    /\ procs[p].op = "createBudgetItem" /\ procs[p].pc # "return"
    /\ Advance(p)
StepDeleteBudgetItem ==
  \E p \in Callers :
    /\ procs[p].op = "deleteBudgetItem" /\ procs[p].pc # "return"
    /\ Advance(p)
StepUploadFile ==
  \E p \in Callers :
    /\ procs[p].op = "uploadFile" /\ procs[p].pc # "return"
    /\ Advance(p)
StepDeleteFileUpload ==
  \E p \in Callers :
    /\ procs[p].op = "deleteFileUpload" /\ procs[p].pc # "return"
    /\ Advance(p)

\* The caller takes the result
Complete ==
  \E p \in Callers :
    /\ procs[p].pc = "return"
    /\ procs' = [procs EXCEPT ![p] = Idle]
    /\ UNCHANGED <<budget_requests, budget_items, file_uploads, seqs, disk, now, clientVars>>

NextConc ==
  \/ InvokeCreateBudgetRequest
  \/ InvokeUpdateBudgetRequest
  \/ InvokeSubmitBudgetRequest
  \/ InvokeCreateBudgetItem
  \/ InvokeDeleteBudgetItem
  \/ InvokeUploadFile
  \/ InvokeDeleteFileUpload
  \/ StepCreateBudgetRequest
  \/ StepUpdateBudgetRequest
  \/ StepSubmitBudgetRequest
  \/ StepCreateBudgetItem
  \/ StepDeleteBudgetItem
  \/ StepUploadFile
  \/ StepDeleteFileUpload
  \/ Complete
  \/ PlaceFile

SpecConc == Init /\ [][NextConc]_vars

(***************************************************************************)
(* Removal of a request row.  No handler deletes a request; the row is     *)
(* deleted with db.delete(budgetRequestsTable), and the foreign keys of    *)
(* budget_items and file_uploads are declared onDelete: 'cascade'.         *)
(***************************************************************************)
\* Faulty variant: only budget_items carries the cascade
deleteBudgetRequestRow_ItemsOnly(db, id) ==
  [db EXCEPT !.budget_requests = DeleteRow(@, id),
             !.budget_items = [k \in {i \in DOMAIN @ : @[i].budget_request_id # id} |-> @[k]]]

\* db.delete(budgetRequestsTable).where(eq(budgetRequestsTable.id, id))
deleteBudgetRequestRow(db, id) ==
  [db EXCEPT !.budget_requests = DeleteRow(@, id),
             !.budget_items = [k \in {i \in DOMAIN @ : @[i].budget_request_id # id} |-> @[k]],
             !.file_uploads = [k \in {i \in DOMAIN @ : @[i].budget_request_id # id} |-> @[k]]]

DeleteBudgetRequestRow ==
  \E id \in DOMAIN budget_requests :
    /\ Commit(deleteBudgetRequestRow(DB, id))
    /\ UNCHANGED <<now, procs, clientVars>>

NextCascade ==
  \/ InvokeCreateBudgetRequest
  \/ InvokeCreateBudgetItem
  \/ InvokeUploadFile
  \/ StepCreateBudgetRequest
  \/ StepCreateBudgetItem
  \/ StepUploadFile
  \/ Complete
  \/ DeleteBudgetRequestRow

SpecCascade == Init /\ [][NextCascade]_vars

(***************************************************************************)
(* What a call does in the current state                                   *)
(***************************************************************************)
\* The completed call and the store it leaves, run from the current state
Outcome(op, input) == Run(Call(op, input), DB, now)

Threw(out) == out.f.result.threw
Returned(out) == ~out.f.result.threw
Value(out) == out.f.result.value[1]
Error(out) == out.f.result.error

lockedStatuses == {"submitted", "under_review", "approved", "rejected"}

\* The sum of total_cost over the items of request rid, item by item
RECURSIVE CostUpTo(_, _, _)
CostUpTo(items, rid, n) ==
  IF n = 0 THEN 0
  ELSE (IF n \in DOMAIN items /\ items[n].budget_request_id = rid
          THEN items[n].total_cost ELSE 0)
       + CostUpTo(items, rid, n - 1)

TotalIsSumOfItems(db, rid) ==
  db.budget_requests[rid].total_amount = CostUpTo(db.budget_items, rid, db.seqs.budget_items)

ParentOf(id) == budget_items[id].budget_request_id

(***************************************************************************)
(* Claims on the item handlers, one caller                                 *)
(***************************************************************************)
\* C1 (as stated): after each successful createBudgetItem, updateBudgetItem or
\* deleteBudgetItem on a request, the request's stored total_amount equals the
\* sum of total_cost over its current items (0 when it has none).
C1_TotalAfterEveryItemMutation ==
  /\ \A input \in CreateBudgetItemInputs :
       LET out == Outcome("createBudgetItem", input) IN
       Returned(out) => TotalIsSumOfItems(out.db, input.budget_request_id)
  /\ \A input \in UpdateBudgetItemInputs :
       LET out == Outcome("updateBudgetItem", input) IN
       Returned(out) => TotalIsSumOfItems(out.db, ParentOf(input.id))
  /\ \A id \in ItemIds :
       LET out == Outcome("deleteBudgetItem", id) IN
       (Returned(out) /\ Value(out) = TRUE) => TotalIsSumOfItems(out.db, ParentOf(id))

C5_CreateItemRejectsOnlyDecided ==
  \A input \in CreateBudgetItemInputs :
    input.budget_request_id \in DOMAIN budget_requests =>
      LET out == Outcome("createBudgetItem", input)
          status == budget_requests[input.budget_request_id].status
      IN /\ Threw(out) <=> status \in {"approved", "rejected"}
         /\ Threw(out) =>
              /\ Error(out) = <<"Cannot add budget items to a {} budget request", status>>
              /\ out.db = DB
         /\ status \in {"submitted", "draft"} =>
              /\ Returned(out)
              /\ DOMAIN out.db.budget_items = DOMAIN budget_items \cup {Value(out).id}
              /\ Value(out).id \notin DOMAIN budget_items
              /\ out.db.budget_items[Value(out).id].budget_request_id = input.budget_request_id

\* One request is submitted and takes an item while another is approved and
\* refuses it.
C5_Witness ==
  \E a, b \in CreateBudgetItemInputs :
    /\ a.budget_request_id \in DOMAIN budget_requests
    /\ b.budget_request_id \in DOMAIN budget_requests
    /\ budget_requests[a.budget_request_id].status = "submitted"
    /\ budget_requests[b.budget_request_id].status = "approved"
    /\ ItemsOf(budget_items, a.budget_request_id) # {}
    /\ Returned(Outcome("createBudgetItem", a))
    /\ Threw(Outcome("createBudgetItem", b))

\* C6: deleteBudgetItem returns false without throwing and leaves the store as
\* it was when the item does not exist or its parent is submitted,
\* under_review, approved or rejected; it removes the item and returns true
\* when the parent is draft or revision_requested.
C6_DeleteItemRefusals ==
  \A id \in ItemIds :
    LET out == Outcome("deleteBudgetItem", id) IN
    /\ Returned(out)
    /\ (id \notin DOMAIN budget_items
         \/ budget_requests[ParentOf(id)].status \in lockedStatuses) =>
           /\ Value(out) = FALSE
           /\ out.db = DB
    /\ (id \in DOMAIN budget_items
         /\ budget_requests[ParentOf(id)].status \in {"draft", "revision_requested"}) =>
           /\ Value(out) = TRUE
           /\ id \notin DOMAIN out.db.budget_items

\* An item under an under_review parent, whose deletion is refused, next to
\* an id whose item was deleted earlier.
C6_Witness ==
  /\ seqs.budget_items = MaxItems
  /\ \E id \in DOMAIN budget_items :
       /\ budget_requests[ParentOf(id)].status = "under_review"
       /\ Value(Outcome("deleteBudgetItem", id)) = FALSE
  /\ \E id \in ItemIds : id \notin DOMAIN budget_items

\* C7: after a deleteBudgetItem that returns true the item is gone and the
\* parent's total_amount is the sum of total_cost of its remaining items,
\* whatever it was before, and exactly 0 when none remains.
C7_DeleteItemRecomputesTotal ==
  \A id \in ItemIds :
    LET out == Outcome("deleteBudgetItem", id) IN
    (Returned(out) /\ Value(out) = TRUE) =>
      /\ id \notin DOMAIN out.db.budget_items
      /\ DOMAIN out.db.budget_items = DOMAIN budget_items \ {id}
      /\ out.db.budget_requests[ParentOf(id)].total_amount
           = CostUpTo(out.db.budget_items, ParentOf(id), seqs.budget_items)
      /\ ItemsOf(out.db.budget_items, ParentOf(id)) = {} =>
           out.db.budget_requests[ParentOf(id)].total_amount = 0

\* A request whose items were all deleted holds 0 although it was created with
\* a positive total, next to a request that still has an item.
C7_Witness ==
  \E r1, r2 \in DOMAIN budget_requests :
    /\ seqs.budget_items = MaxItems
    /\ ItemsOf(budget_items, r1) = {}
    /\ budget_requests[r1].total_amount = 0
    /\ ItemsOf(budget_items, r2) # {}

(***************************************************************************)
(* Claims on submitBudgetRequest                                           *)
(***************************************************************************)
NotFoundTemplate == "Budget request with id {} not found"
NotDraftTemplate == "Budget request with id {} is not in draft status. Current status: {}"
MissingFieldsTemplate == "Cannot submit budget request. Missing required fields: {}"
AmountTemplate == "Cannot submit budget request. Total amount must be greater than 0"

\* Empty or made of blanks only
IsBlankText(v) == \A i \in 1..Len(v) : v[i] = " "

RequiredTextFields ==
  {"department_name", "contact_person", "contact_email", "request_title",
   "request_description", "justification", "expected_outcomes"}

BlankFields(row) == {k \in RequiredTextFields : IsBlankText(row[k])}

\* Position of a field in the declared order
FieldRank(k) ==
  CASE k = "department_name" -> 1
    [] k = "contact_person" -> 2
    [] k = "contact_email" -> 3
    [] k = "request_title" -> 4
    [] k = "request_description" -> 5
    [] k = "total_amount" -> 6
    [] k = "justification" -> 7
    [] k = "expected_outcomes" -> 8

\* C8: submitting a request that is not a draft fails with the error that names
\* its current status, whatever its fields and its total_amount.
C8_SubmitNonDraftNamesStatus ==
  \A id \in DOMAIN budget_requests :
    budget_requests[id].status # "draft" =>
      LET out == Outcome("submitBudgetRequest", id) IN
      /\ Threw(out)
      /\ Error(out) = <<NotDraftTemplate, ToString(id), budget_requests[id].status>>

\* A revision_requested request with a blank field and a total of zero, whose
\* submission is refused for its status.
C8_Witness ==
  \E id \in DOMAIN budget_requests :
    /\ budget_requests[id].status = "revision_requested"
    /\ BlankFields(budget_requests[id]) # {}
    /\ budget_requests[id].total_amount <= 0
    /\ Threw(Outcome("submitBudgetRequest", id))

\* C9: submitBudgetRequest reports the first failing precondition in the order
\* not-found, not-draft, missing-fields, non-positive-total; a draft with a
\* blank required field and a total <= 0 gets the missing-fields error.
C9_SubmitPreconditionOrder ==
  \A id \in RequestIds :
    LET out == Outcome("submitBudgetRequest", id) IN
    IF id \notin DOMAIN budget_requests
      THEN Threw(out) /\ Error(out)[1] = NotFoundTemplate
    ELSE IF budget_requests[id].status # "draft"
      THEN Threw(out) /\ Error(out)[1] = NotDraftTemplate
    ELSE IF BlankFields(budget_requests[id]) # {}
      THEN Threw(out) /\ Error(out)[1] = MissingFieldsTemplate
    ELSE IF budget_requests[id].total_amount <= 0
      THEN Threw(out) /\ Error(out)[1] = AmountTemplate
    ELSE Returned(out)

\* A draft with a blank title and a negative total: refused for the title.
C9_Witness ==
  \E id \in DOMAIN budget_requests :
    /\ budget_requests[id].status = "draft"
    /\ IsBlankText(budget_requests[id].request_title)
    /\ budget_requests[id].total_amount < 0
    /\ Error(Outcome("submitBudgetRequest", id))[1] = MissingFieldsTemplate

\* C10: a missing-fields failure lists exactly the required fields whose stored
\* value is empty or whitespace-only, each once, in the declared order.
C10_MissingFieldsListed ==
  \A id \in DOMAIN budget_requests :
    LET out == Outcome("submitBudgetRequest", id)
        listed == SubSeq(Error(out), 2, Len(Error(out)))
    IN (Threw(out) /\ Error(out)[1] = MissingFieldsTemplate) =>
         /\ {listed[i] : i \in 1..Len(listed)} = BlankFields(budget_requests[id])
         /\ \A i, j \in 1..Len(listed) :
              i < j => FieldRank(listed[i]) < FieldRank(listed[j])

\* A draft whose department_name is whitespace-only and whose expected_outcomes
\* is empty, the other fields filled in (one of them padded with blanks).
C10_Witness ==
  \E id \in DOMAIN budget_requests :
    /\ budget_requests[id].status = "draft"
    /\ budget_requests[id].department_name = Ws(2)
    /\ budget_requests[id].expected_outcomes = <<>>
    /\ BlankFields(budget_requests[id]) = {"department_name", "expected_outcomes"}
    /\ Error(Outcome("submitBudgetRequest", id))
         = <<MissingFieldsTemplate, "department_name", "expected_outcomes">>

(***************************************************************************)
(* Claims on calls in flight together                                      *)
(***************************************************************************)
FilesOf(table, rid) == {k \in DOMAIN table : table[k].budget_request_id = rid}

\* Caller p's deleteBudgetItem has returned true for an item of request rid
DeletedItemOf(p, rid) ==
  /\ procs[p].op = "deleteBudgetItem"
  /\ procs[p].pc = "return"
  /\ procs[p].result.value = <<TRUE>>
  /\ procs[p].loc.item.budget_request_id = rid

\* C2: once two deleteBudgetItem calls on two items of the same request have
\* both completed, however their statements interleaved, the request's
\* total_amount is the sum of total_cost of the items that remain.
C2_ConcurrentDeletesKeepTotal ==
  \A rid \in DOMAIN budget_requests :
    \A p, q \in Callers :
      (p # q /\ DeletedItemOf(p, rid) /\ DeletedItemOf(q, rid)
         /\ procs[p].input # procs[q].input)
        => TotalIsSumOfItems(DB, rid)

\* C3: no item is removed from, and no file is added to or removed from, a
\* request whose stored status is submitted, under_review, approved or rejected
\* at the moment of the write, whatever interleaves with the writing handler.
C3_NoWriteUnderLockedRequest ==
  [][\A rid \in DOMAIN budget_requests :
       (\/ ~(ItemsOf(budget_items, rid) \subseteq ItemsOf(budget_items', rid))
        \/ FilesOf(file_uploads, rid) # FilesOf(file_uploads', rid))
         => budget_requests[rid].status \notin lockedStatuses]_vars

\* C11: submitting a draft whose required text fields are all non-blank and
\* whose total_amount is zero or negative fails with the 'Total amount must be
\* greater than 0' error.
C11_SubmitNonPositiveTotal ==
  \A id \in DOMAIN budget_requests :
    (/\ budget_requests[id].status = "draft"
     /\ BlankFields(budget_requests[id]) = {}
     /\ budget_requests[id].total_amount <= 0) =>
      LET out == Outcome("submitBudgetRequest", id) IN
      /\ Threw(out)
      /\ Error(out) = <<AmountTemplate>>

\* A complete draft whose stored total_amount is exactly 0.00 is refused.
C11_Witness ==
  \E id \in DOMAIN budget_requests :
    /\ budget_requests[id].status = "draft"
    /\ BlankFields(budget_requests[id]) = {}
    /\ budget_requests[id].total_amount = 0
    /\ Error(Outcome("submitBudgetRequest", id)) = <<AmountTemplate>>

\* C12: a submitBudgetRequest that fails (not found, not draft, missing fields,
\* non-positive total) leaves the whole store as it was: the request's row, the
\* items and the files.
C12_FailedSubmitChangesNothing ==
  \A id \in RequestIds :
    LET out == Outcome("submitBudgetRequest", id) IN
    Threw(out) =>
      /\ out.db.budget_requests = budget_requests
      /\ out.db.budget_items = budget_items
      /\ out.db.file_uploads = file_uploads
      /\ out.db.disk = disk

\* A draft with a negative stored total fails for the amount, an id that is not
\* stored fails as not found, and the draft, its item and its file are there.
C12_Witness ==
  /\ \E id \in DOMAIN budget_requests :
       /\ budget_requests[id].status = "draft"
       /\ budget_requests[id].total_amount < 0
       /\ Error(Outcome("submitBudgetRequest", id)) = <<AmountTemplate>>
       /\ ItemsOf(budget_items, id) # {}
       /\ FilesOf(file_uploads, id) # {}
  /\ \E id \in RequestIds :
       /\ id \notin DOMAIN budget_requests
       /\ Threw(Outcome("submitBudgetRequest", id))

\* C13: a successful submitBudgetRequest sets status to submitted and
\* submitted_at and updated_at to the time of the call, changes no other column
\* of the request and no item or file, and returns the stored row with
\* total_amount as a native number.
C13_SubmitFrame ==
  \A id \in RequestIds :
    LET out == Outcome("submitBudgetRequest", id) IN
    Returned(out) =>
      /\ id \in DOMAIN budget_requests
      /\ out.db.budget_requests =
           [budget_requests EXCEPT ![id] =
              [@ EXCEPT !.status = "submitted", !.submitted_at = Some(now),
                        !.updated_at = now]]
      /\ out.db.budget_items = budget_items
      /\ out.db.file_uploads = file_uploads
      /\ out.db.disk = disk
      /\ Value(out) = [out.db.budget_requests[id] EXCEPT
                         !.total_amount = 10 * out.db.budget_requests[id].total_amount]

\* A complete draft with a positive total, created at time 0 and submitted at
\* time 1, with an item and a file under it.
C13_Witness ==
  \E id \in DOMAIN budget_requests :
    /\ now = 1
    /\ budget_requests[id].status = "draft"
    /\ budget_requests[id].created_at = 0
    /\ ItemsOf(budget_items, id) # {}
    /\ FilesOf(file_uploads, id) # {}
    /\ Returned(Outcome("submitBudgetRequest", id))
    /\ Value(Outcome("submitBudgetRequest", id)).submitted_at = Some(1)

(***************************************************************************)
(* Claims on uploadFile and deleteFileUpload                               *)
(***************************************************************************)
\* The request the upload names exists and is draft or revision_requested
UploadParentEditable(input) ==
  /\ input.budget_request_id \in DOMAIN budget_requests
  /\ budget_requests[input.budget_request_id].status \in {"draft", "revision_requested"}

\* C14: uploadFile persists a record exactly when the parent exists, is draft
\* or revision_requested, file_size <= 52428800 and mime_type is one of the nine
\* allow-listed types; a failure creates nothing; so every stored record has
\* 1 <= file_size <= 52428800 and an allow-listed type.
C14_UploadPersistsIffValid ==
  /\ Cardinality(allowedMimeTypes) = 9
  /\ \A input \in UploadFileInputs :
       LET out == Outcome("uploadFile", input) IN
       /\ Returned(out) <=>
            (/\ UploadParentEditable(input)
             /\ input.file_size <= 52428800
             /\ input.mime_type \in allowedMimeTypes)
       /\ Threw(out) => out.db = DB
       /\ Returned(out) =>
            /\ DOMAIN out.db.file_uploads = DOMAIN file_uploads \cup {Value(out).id}
            /\ Value(out).id \notin DOMAIN file_uploads
            /\ out.db.file_uploads[Value(out).id] = Value(out)
            /\ Value(out).file_size = input.file_size
            /\ Value(out).mime_type = input.mime_type
            /\ Value(out).budget_request_id = input.budget_request_id
  /\ \A id \in DOMAIN file_uploads :
       /\ 1 <= file_uploads[id].file_size
       /\ file_uploads[id].file_size <= 52428800
       /\ file_uploads[id].mime_type \in allowedMimeTypes

\* A stored file of exactly 52428800 bytes, while a further upload one byte
\* larger to an editable request is refused.
C14_Witness ==
  /\ \E id \in DOMAIN file_uploads : file_uploads[id].file_size = 52428800
  /\ \E input \in UploadFileInputs :
       /\ UploadParentEditable(input)
       /\ input.file_size = 52428801
       /\ input.mime_type \in allowedMimeTypes
       /\ Threw(Outcome("uploadFile", input))

\* C15: uploadFile reports the first failing check in the order parent exists,
\* status editable, size, MIME type: an oversize or disallowed upload to a
\* locked request is refused naming the status, and an oversize file of a
\* disallowed type on an editable request is refused naming size and limit.
C15_UploadCheckOrder ==
  \A input \in UploadFileInputs :
    LET out == Outcome("uploadFile", input)
        rid == input.budget_request_id
    IN IF rid \notin DOMAIN budget_requests
         THEN Threw(out)
              /\ Error(out) = <<"Budget request with ID {} not found", ToString(rid)>>
       ELSE IF budget_requests[rid].status \in lockedStatuses
         THEN Threw(out)
              /\ Error(out) = <<"Cannot upload files to budget request with status: {}",
                                budget_requests[rid].status>>
       ELSE IF input.file_size > 52428800
         THEN Threw(out)
              /\ Error(out) = <<"File size {} bytes exceeds maximum allowed size of {} bytes",
                                ToString(input.file_size), "52428800">>
       ELSE IF input.mime_type \notin allowedMimeTypes
         THEN Threw(out)
              /\ Error(out) = <<"File type {} is not allowed", input.mime_type>>
       ELSE Returned(out)

\* An oversize executable offered to an under_review request (refused for the
\* status) and to a revision_requested request (refused for the size).
C15_Witness ==
  \E a, b \in UploadFileInputs :
    /\ a.file_size > 52428800 /\ a.mime_type \notin allowedMimeTypes
    /\ b.file_size > 52428800 /\ b.mime_type \notin allowedMimeTypes
    /\ a.budget_request_id \in DOMAIN budget_requests
    /\ b.budget_request_id \in DOMAIN budget_requests
    /\ budget_requests[a.budget_request_id].status = "under_review"
    /\ budget_requests[b.budget_request_id].status = "revision_requested"
    /\ Error(Outcome("uploadFile", a))[2] = "under_review"
    /\ Error(Outcome("uploadFile", b))[2] = "52428801"

FileParentOf(id) == file_uploads[id].budget_request_id

\* C16: deleteFileUpload returns false without throwing and leaves the record
\* and the physical file untouched when the id does not exist or the parent is
\* submitted, under_review, approved or rejected; it returns true and removes
\* the record when the parent is draft or revision_requested.
C16_DeleteFileRefusals ==
  \A input \in DeleteFileUploadInputs :
    LET out == Outcome("deleteFileUpload", input) IN
    /\ Returned(out)
    /\ (input.id \notin DOMAIN file_uploads
         \/ budget_requests[FileParentOf(input.id)].status \in lockedStatuses) =>
           /\ Value(out) = FALSE
           /\ out.db = DB
    /\ (input.id \in DOMAIN file_uploads
         /\ budget_requests[FileParentOf(input.id)].status
              \in {"draft", "revision_requested"}) =>
           /\ Value(out) = TRUE
           /\ input.id \notin DOMAIN out.db.file_uploads

\* A file on disk under a request that was approved after the upload: the
\* deletion is refused and the bytes stay.
C16_Witness ==
  \E input \in DeleteFileUploadInputs :
    /\ input.id \in DOMAIN file_uploads
    /\ budget_requests[FileParentOf(input.id)].status = "approved"
    /\ file_uploads[input.id].file_path \in disk
    /\ Value(Outcome("deleteFileUpload", input)) = FALSE
    /\ file_uploads[input.id].file_path \in Outcome("deleteFileUpload", input).db.disk

\* C17: on an existing file of an editable request deleteFileUpload removes the
\* record and returns true whether the physical file was removed, was already
\* absent, or its removal raised; the storage failure is not propagated.
C17_DeleteFileBestEffort ==
  \A input \in DeleteFileUploadInputs :
    (/\ input.id \in DOMAIN file_uploads
     /\ budget_requests[FileParentOf(input.id)].status \in {"draft", "revision_requested"}) =>
      LET out == Outcome("deleteFileUpload", input)
          path == file_uploads[input.id].file_path
      IN /\ Returned(out)
         /\ Value(out) = TRUE
         /\ out.db.file_uploads = DeleteRow(file_uploads, input.id)
         /\ out.db.budget_requests = budget_requests
         /\ (path \in disk /\ ~input.unlink_fails) => out.db.disk = disk \ {path}
         /\ (path \notin disk \/ input.unlink_fails) => out.db.disk = disk

\* A file of a draft request whose bytes are on disk and whose unlink raises:
\* the call still returns true and the record goes, the bytes stay.
C17_Witness ==
  \E input \in DeleteFileUploadInputs :
    /\ input.id \in DOMAIN file_uploads
    /\ budget_requests[FileParentOf(input.id)].status = "draft"
    /\ file_uploads[input.id].file_path \in disk
    /\ input.unlink_fails
    /\ Value(Outcome("deleteFileUpload", input)) = TRUE
    /\ input.id \notin DOMAIN Outcome("deleteFileUpload", input).db.file_uploads

(***************************************************************************)
(* Claims on updateBudgetItem                                              *)
(***************************************************************************)
\* The total_cost, as a native number, that an update of the stored item must
\* leave: the supplied one, else unit_cost * quantity when either is supplied
\* (a null quantity counting as 1), else the stored one.
ExpectedTotalCost(input, item) ==
  LET uc == IF "unit_cost" \in DOMAIN input THEN input.unit_cost ELSE 10 * item.unit_cost
      qv == IF "quantity" \in DOMAIN input THEN input.quantity ELSE item.quantity
      q == IF qv = <<>> THEN 1 ELSE qv[1]
  IN IF "total_cost" \in DOMAIN input THEN input.total_cost
     ELSE IF "unit_cost" \in DOMAIN input \/ "quantity" \in DOMAIN input THEN uc * q
     ELSE 10 * item.total_cost

\* C18: updateBudgetItem sets total_cost to the supplied total_cost; else, when
\* unit_cost and/or quantity is supplied, to (supplied or stored unit_cost) *
\* (supplied or stored quantity, 1 when null); else leaves it; the value is
\* both stored and returned.
C18_UpdateItemDerivedTotalCost ==
  \A input \in ItemUpdateInputs :
    LET out == Outcome("updateBudgetItem", input) IN
    Returned(out) =>
      /\ Value(out).total_cost = ExpectedTotalCost(input, budget_items[input.id])
      /\ 10 * out.db.budget_items[input.id].total_cost
           = ExpectedTotalCost(input, budget_items[input.id])

\* The item without a quantity gets total_cost = unit_cost * 1 from a unit_cost
\* alone, and an item whose quantity was raised to 3 earlier gets 3 * unit_cost.
C18_Witness ==
  /\ budget_items[2].quantity = Null
  /\ Returned(Outcome("updateBudgetItem", [id |-> 2, unit_cost |-> 1000]))
  /\ Value(Outcome("updateBudgetItem", [id |-> 2, unit_cost |-> 1000])).total_cost = 1000
  /\ budget_items[1].quantity = Some(3)
  /\ budget_items[1].total_cost = 150
  /\ Value(Outcome("updateBudgetItem", [id |-> 1, unit_cost |-> 1000])).total_cost = 3000

C20_UpdateItemFrame ==
  \A input \in ItemUpdateInputs :
    LET out == Outcome("updateBudgetItem", input) IN
    Returned(out) =>
      LET old == budget_items[input.id]
          new == out.db.budget_items[input.id]
      IN /\ DOMAIN out.db.budget_items = DOMAIN budget_items
         /\ \A k \in DOMAIN budget_items \ {input.id} :
              out.db.budget_items[k] = budget_items[k]
         /\ new.id = old.id
         /\ new.budget_request_id = old.budget_request_id
         /\ \A c \in DOMAIN old \ {"id", "total_cost"} :
              IF c \in DOMAIN input
                THEN IF c = "unit_cost" THEN 10 * new[c] = input[c] ELSE new[c] = input[c]
                ELSE new[c] = old[c]
         /\ ("total_cost" \in DOMAIN input) => 10 * new.total_cost = input.total_cost
         /\ Value(out) = [new EXCEPT !.unit_cost = 10 * new.unit_cost,
                                     !.total_cost = 10 * new.total_cost]

\* An item whose description and quantity were changed earlier keeps both, and
\* its unit is cleared, when category, unit and justification are supplied.
C20_Witness ==
  LET input == [id |-> 2, category |-> "personnel", unit |-> Null,
                justification |-> Some(Txt(1))]
  IN /\ budget_items[2].description = Txt(2)
     /\ budget_items[2].quantity = Some(3)
     /\ budget_items[2].unit # Null
     /\ Returned(Outcome("updateBudgetItem", input))
     /\ Value(Outcome("updateBudgetItem", input)).description = Txt(2)
     /\ Value(Outcome("updateBudgetItem", input)).unit = Null

(***************************************************************************)
(* Claims on updateBudgetRequest                                           *)
(***************************************************************************)
\* C21: updateBudgetRequest changes exactly the fields its input carries plus
\* updated_at: every omitted column keeps its value, a nullable column passed
\* as null is stored as null, and no other row or table changes.
C21_UpdateRequestFrame ==
  \A input \in RequestUpdateInputs :
    LET out == Outcome("updateBudgetRequest", input) IN
    Returned(out) =>
      LET old == budget_requests[input.id]
          new == out.db.budget_requests[input.id]
      IN /\ out.db = [DB EXCEPT !.budget_requests =
                        [k \in DOMAIN budget_requests |->
                           IF k = input.id THEN new ELSE budget_requests[k]]]
         /\ DOMAIN new = DOMAIN old
         /\ \A c \in DOMAIN old :
              IF c = "updated_at" THEN new[c] = now
              ELSE IF c = "id" \/ c \notin DOMAIN input THEN new[c] = old[c]
              ELSE IF c = "total_amount" THEN 10 * new[c] = input[c]
              ELSE new[c] = input[c]

\* A locked request whose nullable columns are filled at a later time: nulls
\* clear department_code and reviewer_notes, while status, submitted_at and
\* created_at stay and updated_at moves.
C21_Witness ==
  LET clear == [id |-> 1, contact_phone |-> Null, timeline_start |-> Null,
                timeline_end |-> Null, reviewer_notes |-> Null]
      out == Outcome("updateBudgetRequest", clear)
  IN /\ now = 1
     /\ budget_requests[1].status = "approved"
     /\ budget_requests[1].reviewer_notes = Some(Txt(2))
     /\ budget_requests[1].contact_phone # Null
     /\ budget_requests[1].updated_at = 0
     /\ Returned(out)
     /\ out.db.budget_requests[1].reviewer_notes = Null
     /\ out.db.budget_requests[1].contact_phone = Null
     /\ out.db.budget_requests[1].department_code = budget_requests[1].department_code
     /\ out.db.budget_requests[1].submitted_at = Some(0)
     /\ out.db.budget_requests[1].updated_at = 1

\* C24: updateBudgetRequest succeeds for a stored request in any of the six
\* statuses, and an input that carries a status stores and returns that
\* status, whatever the status was.
C24_UpdateRequestNotStatusGated ==
  \A input \in RequestUpdateInputs :
    LET out == Outcome("updateBudgetRequest", input) IN
    input.id \in DOMAIN budget_requests =>
      /\ Returned(out)
      /\ "status" \in DOMAIN input =>
           /\ out.db.budget_requests[input.id].status = input.status
           /\ Value(out).status = input.status

\* A request that an earlier update left rejected goes back to draft, and its
\* other fields can still be edited
C24_Witness ==
  /\ budget_requests[1].status = "rejected"
  /\ budget_requests[1].updated_at = 1
  /\ Returned(Outcome("updateBudgetRequest", [id |-> 1, status |-> "draft"]))
  /\ Value(Outcome("updateBudgetRequest", [id |-> 1, status |-> "draft"])).status = "draft"
  /\ Returned(Outcome("updateBudgetRequest", [id |-> 1, department_name |-> Txt(2),
                                              fiscal_year |-> 2025]))

\* C22: once a request has at least one item, no operation leaves its
\* total_amount different from the sum of its items' total_cost; an
\* updateBudgetRequest that carries total_amount keeps the item-derived total
\* of a request that has items.
C22_UpdateRequestKeepsItemTotal ==
  \A input \in UpdateBudgetRequestInputs :
    LET out == Outcome("updateBudgetRequest", input) IN
    ( /\ Returned(out)
      /\ "total_amount" \in DOMAIN input
      /\ ItemsOf(budget_items, input.id) # {}
      /\ TotalIsSumOfItems(DB, input.id) )
      => TotalIsSumOfItems(out.db, input.id)

(***************************************************************************)
(* Claims on the stored totals                                             *)
(***************************************************************************)
\* C23: in every state the handlers reach from schema-valid inputs, every
\* request's total_amount is at least 0.
C23_TotalNeverNegative ==
  \A rid \in DOMAIN budget_requests : budget_requests[rid].total_amount >= 0

\* The boundary: a request whose last item was deleted holds a recomputed
\* total of exactly 0, beside a request that still has an item.
C23_Witness ==
  /\ DOMAIN budget_requests = {1, 2}
  /\ seqs.budget_items = 2
  /\ DOMAIN budget_items = {2}
  /\ budget_items[2].budget_request_id = 2
  /\ budget_requests[1].total_amount = 0
  /\ budget_requests[2].total_amount > 0

(***************************************************************************)
(* Claims on getBudgetRequests                                             *)
(***************************************************************************)
\* The stored requests that equal the filter in every field it supplies
MatchingFilter(filter) ==
  {k \in DOMAIN budget_requests :
     \A c \in DOMAIN filter : budget_requests[k][c] = filter[c]}

PageOf(filter, limit, offset, ties) ==
  Value(Outcome("getBudgetRequests", Query(filter, limit, offset, ties)))

PageIds(page) == {page.data[i].id : i \in 1..Len(page.data)}

Min(a, b) == IF a < b THEN a ELSE b
Max(a, b) == IF a > b THEN a ELSE b

\* Filters whose department_name, when supplied, is not the empty string
NonEmptyFilters ==
  {filter \in QueryFilters :
     "department_name" \in DOMAIN filter => filter.department_name # <<>>}

\* C25: for every filter with a non-empty department_name, every limit and
\* offset, getBudgetRequests returns total = the number of matching requests,
\* a page of min(limit, max(0, total - offset)) requests and has_more exactly
\* when offset + limit < total; and the pages at offsets 0, limit, 2 * limit,
\* ... of an unchanged store hold every matching request exactly once.
C25_PaginationCoversEachOnce ==
  \A filter \in NonEmptyFilters, limit \in QueryLimits :
    LET total == Cardinality(MatchingFilter(filter))
        pages == 0..((Max(total, 1) - 1) \div limit)
    IN /\ \A offset \in QueryOffsets, ties \in TieOrders :
            LET page == PageOf(filter, limit, offset, ties) IN
            /\ page.total = total
            /\ Len(page.data) = Min(limit, Max(0, total - offset))
            /\ page.has_more = (offset + limit < total)
       /\ \A order \in [pages -> TieOrders] :
            \A k \in MatchingFilter(filter) :
              Cardinality({n \in pages :
                             k \in PageIds(PageOf(filter, limit, n * limit, order[n]))}) = 1

\* C26: for every filter the schema allows, an empty department_name
\* included, getBudgetRequests returns exactly the requests that equal the
\* filter in every supplied field, each once, newest created_at first.
C26_FilterReturnsExactlyMatching ==
  \A filter \in QueryFilters, ties \in TieOrders :
    LET page == PageOf(filter, 100, 0, ties) IN
    /\ PageIds(page) = MatchingFilter(filter)
    /\ Len(page.data) = Cardinality(MatchingFilter(filter))
    /\ \A i, j \in 1..Len(page.data) :
         i < j => page.data[i].created_at >= page.data[j].created_at

(***************************************************************************)
(* Claims on the references between the tables                             *)
(***************************************************************************)
\* C27: every item and every file always references a stored request:
\* removing a request removes its items and files, and no handler stores an
\* item or a file under a request id that is not stored.
C27_ItemsAndFilesReferenceRequests ==
  /\ \A k \in DOMAIN budget_items :
       budget_items[k].budget_request_id \in DOMAIN budget_requests
  /\ \A k \in DOMAIN file_uploads :
       file_uploads[k].budget_request_id \in DOMAIN budget_requests

\* The request that held an item and a file is gone with both of them, and a
\* createBudgetItem that had seen it before the removal was refused on insert.
C27_Witness ==
  /\ seqs.budget_requests = 1
  /\ seqs.budget_items = 1
  /\ seqs.file_uploads = 1
  /\ budget_requests = <<>>
  /\ \E p \in Callers :
       /\ procs[p].op = "createBudgetItem"
       /\ procs[p].pc = "return"
       /\ procs[p].result.threw
       /\ procs[p].result.error = <<"violates foreign key constraint">>

(***************************************************************************)
(* Claims on createBudgetRequest                                           *)
(***************************************************************************)
CreatedRow(raw) ==
  LET out == Outcome("createBudgetRequest", createBudgetRequestInputSchema(raw))
  IN out.db.budget_requests[Value(out).id]

\* C28 (as stated): every request produced by createBudgetRequest starts in
\* status draft, with submitted_at, reviewed_at and reviewer_notes null.
C28_CreatedAsDraft ==
  \A raw \in RawCreateBudgetRequestInputs :
    LET out == Outcome("createBudgetRequest", createBudgetRequestInputSchema(raw)) IN
    Returned(out) =>
      /\ Value(out).id \notin DOMAIN budget_requests
      /\ CreatedRow(raw).status = "draft"
      /\ Value(out).status = "draft"
      /\ CreatedRow(raw).submitted_at = Null
      /\ CreatedRow(raw).reviewed_at = Null
      /\ CreatedRow(raw).reviewer_notes = Null

\* C28 (amended): every request produced by createBudgetRequest starts in the
\* status its input carries, draft when the input carries none, with
\* submitted_at, reviewed_at and reviewer_notes null.
C28_CreatedWithInputStatus ==
  \A raw \in RawCreateBudgetRequestInputs :
    LET out == Outcome("createBudgetRequest", createBudgetRequestInputSchema(raw))
        status == IF "status" \in DOMAIN raw THEN raw.status ELSE "draft"
    IN Returned(out) =>
      /\ Value(out).id \notin DOMAIN budget_requests
      /\ CreatedRow(raw).status = status
      /\ Value(out).status = status
      /\ CreatedRow(raw).submitted_at = Null
      /\ CreatedRow(raw).reviewed_at = Null
      /\ CreatedRow(raw).reviewer_notes = Null

\* A stored request that was created as submitted (it has no submitted_at),
\* while a further create without a status yields a draft.
C28_Witness ==
  /\ 1 \in DOMAIN budget_requests
  /\ budget_requests[1].status = "submitted"
  /\ budget_requests[1].submitted_at = Null
  /\ CreatedRow([c \in DOMAIN validRequest \ {"status"} |-> validRequest[c]]).status = "draft"
  /\ CreatedRow([validRequest EXCEPT !.status = "approved"]).status = "approved"

(***************************************************************************)
(* Claims on the timestamps                                                *)
(***************************************************************************)
\* The request rid carries the time of the call and its old created_at
Touched(out, rid) ==
  /\ out.db.budget_requests[rid].updated_at = now
  /\ out.db.budget_requests[rid].updated_at >= budget_requests[rid].updated_at
  /\ out.db.budget_requests[rid].created_at = budget_requests[rid].created_at

\* C29: every successful updateBudgetRequest, submitBudgetRequest and item
\* create, update or delete sets the request's updated_at to the time of the
\* call, so that it never decreases, and leaves created_at as it was.
C29_MutationsSetUpdatedAt ==
  /\ \A input \in UpdateBudgetRequestInputs :
       LET out == Outcome("updateBudgetRequest", input) IN
       Returned(out) => Touched(out, input.id)
  /\ \A id \in RequestIds :
       LET out == Outcome("submitBudgetRequest", id) IN
       Returned(out) => Touched(out, id)
  /\ \A input \in UpdateBudgetItemInputs :
       LET out == Outcome("updateBudgetItem", input) IN
       Returned(out) => Touched(out, ParentOf(input.id))
  /\ \A id \in ItemIds :
       LET out == Outcome("deleteBudgetItem", id) IN
       (Returned(out) /\ Value(out) = TRUE) => Touched(out, ParentOf(id))
  /\ \A input \in CreateBudgetItemInputs :
       LET out == Outcome("createBudgetItem", input) IN
       Returned(out) => Touched(out, input.budget_request_id)

(***************************************************************************)
(* Claims on input validation                                              *)
(***************************************************************************)
Refused(out) == Threw(out) /\ Error(out)[1] = "BAD_REQUEST"

\* Validation of the two item procedures: costs strictly positive, a quantity
\* absent, null or a positive integer; a refused input changes nothing
ItemInputsValidated ==
  \A op \in {"createBudgetItem", "updateBudgetItem"} :
    \A raw \in (IF op = "createBudgetItem" THEN RawCreateItems ELSE RawUpdateItems) :
      LET out == Procedure(op, raw, DB, now) IN
      /\ ~Refused(out) <=>
           /\ "unit_cost" \in DOMAIN raw => raw.unit_cost > 0
           /\ "total_cost" \in DOMAIN raw => raw.total_cost > 0
           /\ ("quantity" \in DOMAIN raw /\ raw.quantity # Null) =>
                (raw.quantity[1] > 0 /\ raw.quantity[1] % 1000 = 0)
      /\ Refused(out) => out.db = DB

\* C30 (as stated): creating and updating a request accept a total_amount of
\* exactly 0 and refuse a negative one; an item's unit_cost and total_cost
\* must be strictly positive and a quantity, when present, a positive integer.
C30_ZeroTotalAccepted ==
  /\ \A op \in {"createBudgetRequest", "updateBudgetRequest"} :
       \A raw \in (IF op = "createBudgetRequest" THEN RawCreateRequests
                                                 ELSE RawUpdateRequests) :
         LET out == Procedure(op, raw, DB, now) IN
         /\ ~Refused(out) <=> raw.total_amount >= 0
         /\ Refused(out) => out.db = DB
  /\ ItemInputsValidated

\* C30 (amended): creating and updating a request refuse a total_amount of
\* exactly 0 as they refuse a negative one, accepting only a strictly positive
\* total; an item's unit_cost and total_cost must be strictly positive and a
\* quantity, when present, a positive integer.
C30_ZeroTotalRefused ==
  /\ \A op \in {"createBudgetRequest", "updateBudgetRequest"} :
       \A raw \in (IF op = "createBudgetRequest" THEN RawCreateRequests
                                                 ELSE RawUpdateRequests) :
         LET out == Procedure(op, raw, DB, now) IN
         /\ ~Refused(out) <=> raw.total_amount > 0
         /\ Refused(out) => out.db = DB
  /\ ItemInputsValidated

\* A request and an item that passed validation are stored; an update of the
\* request's total to 0 is refused while an update to 0.01 goes through, and
\* a quantity of 1.5 is refused for the stored item while 2 is taken.
C30_Witness ==
  /\ 1 \in DOMAIN budget_requests
  /\ 1 \in DOMAIN budget_items
  /\ budget_items[1].budget_request_id = 1
  /\ Refused(Procedure("updateBudgetRequest", [id |-> 1, total_amount |-> 0], DB, now))
  /\ Returned(Procedure("updateBudgetRequest", [id |-> 1, total_amount |-> 10], DB, now))
  /\ Refused(Procedure("updateBudgetItem", [id |-> 1, quantity |-> Some(1500)], DB, now))
  /\ Returned(Procedure("updateBudgetItem", [id |-> 1, quantity |-> Some(2000)], DB, now))
  /\ Value(Procedure("updateBudgetItem", [id |-> 1, quantity |-> Some(2000)], DB, now)).quantity
       = Some(2)

(***************************************************************************)
(* C31: a payload that violates its procedure's input schema is refused    *)
(* before the handler runs: the tables are left as they were and the       *)
(* error names every offending field, not only the first.                  *)
(***************************************************************************)
C31_InvalidInputRefusedWithAllFields ==
  \A p \in SpoiledPayloads :
    LET out == Procedure(p.op, p.raw, DB, now)
    IN  IF p.bad = {}
          THEN ~Refused(out)
          ELSE /\ Refused(out)
               /\ Error(out)[2] = p.bad
               /\ out.db = DB

C31_Witness ==
  /\ 1 \in DOMAIN budget_requests
  /\ 1 \in DOMAIN budget_items
  /\ 1 \in DOMAIN file_uploads
  /\ \A op \in {"createBudgetRequest", "updateBudgetRequest", "createBudgetItem",
                 "updateBudgetItem", "uploadFile"} :
       \E p \in SpoiledPayloads :
         /\ p.op = op
         /\ Cardinality(p.bad) >= 2
         /\ Refused(Procedure(op, p.raw, DB, now))
         /\ Error(Procedure(op, p.raw, DB, now))[2] = p.bad
         /\ Procedure(op, p.raw, DB, now).db = DB

(***************************************************************************)
(* C32: a monetary value with at most two decimals written through         *)
(* createBudgetRequest, updateBudgetRequest or createBudgetItem comes back *)
(* from that call, and from getBudgetRequestById, getBudgetRequests,       *)
(* getBudgetItems and submitBudgetRequest on the record as written, as     *)
(* exactly the same number.                                                *)
(***************************************************************************)
\* 0.01, 0.99, 2.50, 299.99, 12345.67 and 75000.50, in thousandths
MoneyValues == {10, 990, 2500, 299990, 12345670, 75000500}

\* Every read of request id from the store db gives the total v
ReadsTotal(db, id, v) ==
  /\ LET r == Run(Call("getBudgetRequestById", id), db, now)
     IN  /\ Returned(r)
         /\ Len(Value(r)) = 1
         /\ Value(r)[1].total_amount = v
  /\ LET r == Run(Call("getBudgetRequests",
                       [limit |-> 100, offset |-> 0,
                        ties |-> [k \in DOMAIN db.budget_requests |-> k]]), db, now)
     IN  /\ Returned(r)
         /\ \E i \in 1..Len(Value(r).data) :
              Value(r).data[i].id = id /\ Value(r).data[i].total_amount = v
  /\ LET r == Run(Call("submitBudgetRequest", id), db, now)
     IN  Returned(r) => Value(r).total_amount = v

\* getBudgetItems of the parent gives item id with the costs uc and tc
ReadsCosts(db, rid, id, uc, tc) ==
  LET r == Run(Call("getBudgetItems",
                    [budgetRequestId |-> rid,
                     ties |-> [k \in DOMAIN db.budget_items |-> k]]), db, now)
  IN  /\ Returned(r)
      /\ \E i \in 1..Len(Value(r)) :
           /\ Value(r)[i].id = id
           /\ Value(r)[i].unit_cost = uc
           /\ Value(r)[i].total_cost = tc

C32_MoneyRoundTrip ==
  /\ \A v \in MoneyValues :
       LET out == Outcome("createBudgetRequest", [validRequest EXCEPT !.total_amount = v])
       IN  /\ Returned(out)
           /\ Value(out).total_amount = v
           /\ ReadsTotal(out.db, Value(out).id, v)
  /\ \A v \in MoneyValues, id \in DOMAIN budget_requests :
       LET out == Outcome("updateBudgetRequest", [id |-> id, total_amount |-> v])
       IN  /\ Returned(out)
           /\ Value(out).total_amount = v
           /\ ReadsTotal(out.db, id, v)
  /\ \A uc, tc \in MoneyValues, rid \in DOMAIN budget_requests :
       LET out == Outcome("createBudgetItem",
                          [budget_request_id |-> rid, category |-> "operational",
                           description |-> Txt(1), unit |-> Null, quantity |-> Some(2),
                           unit_cost |-> uc, total_cost |-> tc, justification |-> Null])
       IN  Returned(out) =>
             /\ Value(out).unit_cost = uc
             /\ Value(out).total_cost = tc
             /\ ReadsCosts(out.db, rid, Value(out).id, uc, tc)

C32_Witness ==
  /\ 1 \in DOMAIN budget_requests
  /\ budget_requests[1].status = "draft"
  /\ budget_requests[1].total_amount = ToNumeric(3000)
  /\ ReadsTotal(DB, 1, 3000)
  /\ Returned(Outcome("submitBudgetRequest", 1))
  /\ 1 \in DOMAIN budget_items
  /\ budget_items[1].budget_request_id = 1
  /\ ReadsCosts(DB, 1, 1, 500, 2500)

(***************************************************************************)
(* C33: of the submitBudgetRequest calls on one draft request, however     *)
(* their statements interleave, at most one succeeds.  A request never     *)
(* returns to draft here, so two callers holding a successful result for   *)
(* the same id have both submitted the same draft.                         *)
(***************************************************************************)
Submitted(p, id) ==
  /\ procs[p].op = "submitBudgetRequest"
  /\ procs[p].input = id
  /\ procs[p].pc = "return"
  /\ ~procs[p].result.threw

C33_AtMostOneSubmitSucceeds ==
  \A id \in DOMAIN budget_requests :
    \A p, q \in Callers : (Submitted(p, id) /\ Submitted(q, id)) => p = q

(***************************************************************************)
(* C34: whenever submitBudgetRequest writes status submitted, the row it   *)
(* writes to holds, at that moment, a total_amount above 0 and non-blank   *)
(* required fields, whatever ran between the call's read and its write.    *)
(***************************************************************************)
C34_SubmitWritesValidRequest ==
  [][\A p \in Callers :
       (/\ procs[p].op = "submitBudgetRequest"
        /\ procs[p].pc = "update_request"
        /\ procs'[p].pc = "return"
        /\ ~procs'[p].result.threw)
         => /\ budget_requests'[procs[p].input].total_amount > 0
            /\ BlankFields(budget_requests'[procs[p].input]) = {}]_vars

(***************************************************************************)
(* C35: createBudgetItem, updateBudgetItem, deleteBudgetItem, uploadFile   *)
(* and deleteFileUpload leave every column of every request but            *)
(* total_amount and updated_at as it was; a request's status changes only  *)
(* by a successful submitBudgetRequest of a draft, to submitted, or by an  *)
(* updateBudgetRequest whose input carries a status.                       *)
(***************************************************************************)
ItemAndFileCalls ==
  {[op |-> "createBudgetItem", input |-> i] : i \in CreateBudgetItemInputs}
    \cup {[op |-> "updateBudgetItem", input |-> i] : i \in ItemUpdateInputs}
    \cup {[op |-> "deleteBudgetItem", input |-> i] : i \in ItemIds}
    \cup {[op |-> "uploadFile", input |-> i] : i \in UploadFileInputs}
    \cup {[op |-> "deleteFileUpload", input |-> i] : i \in DeleteFileUploadInputs}

RequestCalls ==
  {[op |-> "createBudgetRequest", input |-> i] : i \in CreateBudgetRequestInputs}
    \cup {[op |-> "updateBudgetRequest", input |-> i] : i \in RequestUpdateInputs}
    \cup {[op |-> "submitBudgetRequest", input |-> i] : i \in RequestIds}

C35_OnlyRequestCallsChangeStatus ==
  /\ \A c \in ItemAndFileCalls :
       LET out == Outcome(c.op, c.input) IN
       /\ DOMAIN out.db.budget_requests = DOMAIN budget_requests
       /\ \A id \in DOMAIN budget_requests :
            \A col \in DOMAIN budget_requests[id] \ {"total_amount", "updated_at"} :
              out.db.budget_requests[id][col] = budget_requests[id][col]
  /\ \A c \in RequestCalls :
       LET out == Outcome(c.op, c.input) IN
       \A id \in DOMAIN budget_requests :
         /\ id \in DOMAIN out.db.budget_requests
         /\ out.db.budget_requests[id].status # budget_requests[id].status =>
              \/ /\ c.op = "submitBudgetRequest"
                 /\ c.input = id
                 /\ Returned(out)
                 /\ budget_requests[id].status = "draft"
                 /\ out.db.budget_requests[id].status = "submitted"
              \/ /\ c.op = "updateBudgetRequest"
                 /\ c.input.id = id
                 /\ "status" \in DOMAIN c.input

\* A draft whose item can be deleted and updated, which takes a new item and a
\* file, whose file can be deleted, and which can be submitted
C35_Witness ==
  /\ now = 1
  /\ 1 \in DOMAIN budget_requests
  /\ budget_requests[1].status = "draft"
  /\ Returned(Outcome("deleteBudgetItem", 1))
  /\ Value(Outcome("deleteBudgetItem", 1)) = TRUE
  /\ Outcome("deleteBudgetItem", 1).db.budget_requests[1].total_amount
       # budget_requests[1].total_amount
  /\ Returned(Outcome("updateBudgetItem", [id |-> 1, total_cost |-> 1500]))
  /\ \E i \in CreateBudgetItemInputs :
       i.budget_request_id = 1 /\ Returned(Outcome("createBudgetItem", i))
  /\ \E i \in UploadFileInputs :
       i.budget_request_id = 1 /\ Returned(Outcome("uploadFile", i))
  /\ 1 \in DOMAIN file_uploads
  /\ file_uploads[1].budget_request_id = 1
  /\ Returned(Outcome("deleteFileUpload", [id |-> 1, unlink_fails |-> FALSE]))
  /\ Returned(Outcome("submitBudgetRequest", 1))
  /\ Outcome("submitBudgetRequest", 1).db.budget_requests[1].status = "submitted"

(***************************************************************************)
(* C36: in every state the handlers can reach, a request whose status is   *)
(* submitted has a submitted_at that is not null.                          *)
(***************************************************************************)
C36_SubmittedHasSubmittedAt ==
  \A id \in DOMAIN budget_requests :
    budget_requests[id].status = "submitted" => budget_requests[id].submitted_at # Null

(***************************************************************************)
(* C37: of the deleteBudgetItem calls on one item id, however their        *)
(* statements interleave, at most one removes the row and returns true;    *)
(* once the row is gone a call returns false, and no other call on that id *)
(* recomputes or writes the parent: every write of a deleteBudgetItem call *)
(* is a write of the call that removed the row.  Likewise at most one      *)
(* deleteFileUpload call on a file id returns true, and the calls that     *)
(* return false write nothing.                                             *)
(***************************************************************************)
\* The deleteBudgetItem(id) call f has removed the row: it is recomputing the
\* parent, or has returned true
ItemDeleter(f, id) ==
  /\ f.op = "deleteBudgetItem"
  /\ f.input = id
  /\ \/ f.pc \in {"sum_remaining", "update_request"}
     \/ f.pc = "return" /\ f.result.value = <<TRUE>>

FileDeleter(f, id) ==
  /\ f.op = "deleteFileUpload"
  /\ f.input.id = id
  /\ f.pc = "return"
  /\ f.result.value = <<TRUE>>

C37_AtMostOneDeleteSucceeds ==
  /\ \A id \in ItemIds :
       /\ \A p, q \in Callers :
            (ItemDeleter(procs[p], id) /\ ItemDeleter(procs[q], id)) => p = q
       /\ (\E p \in Callers : ItemDeleter(procs[p], id)) => id \notin DOMAIN budget_items
       /\ (id \notin DOMAIN budget_items) =>
            LET out == Outcome("deleteBudgetItem", id)
            IN  Returned(out) /\ Value(out) = FALSE /\ out.db = DB
  /\ \A id \in FileIds :
       /\ \A p, q \in Callers :
            (FileDeleter(procs[p], id) /\ FileDeleter(procs[q], id)) => p = q
       /\ (\E p \in Callers : FileDeleter(procs[p], id)) => id \notin DOMAIN file_uploads
       /\ (id \notin DOMAIN file_uploads) =>
            \A b \in BOOLEAN :
              LET out == Outcome("deleteFileUpload", [id |-> id, unlink_fails |-> b])
              IN  Returned(out) /\ Value(out) = FALSE /\ out.db = DB
  /\ \A p \in Callers :
       (procs[p].op \in {"deleteBudgetItem", "deleteFileUpload"} /\ procs[p].pc # "return") =>
         LET s == Step(procs[p], DB, now)
         IN  /\ (procs[p].op = "deleteBudgetItem" /\ s.db # DB)
                  => ItemDeleter(s.f, procs[p].input)
             /\ (s.f.pc = "return" /\ s.f.result.value = <<FALSE>>) => s.db = DB

\* Two deleteBudgetItem calls on item 1 of a draft both found the row; one
\* removed it and returned true, the other's delete matched no row and it
\* returned false, the parent's total being that of the remaining items
C37_Witness ==
  \E p, q \in Callers :
    /\ ItemDeleter(procs[p], 1)
    /\ procs[p].pc = "return"
    /\ procs[q].op = "deleteBudgetItem"
    /\ procs[q].input = 1
    /\ procs[q].pc = "return"
    /\ procs[q].result.value = <<FALSE>>
    /\ DOMAIN procs[q].loc = {"item"}
    /\ budget_requests[1].status = "draft"
    /\ TotalIsSumOfItems(DB, 1)

(***************************************************************************)
(* C38: a deleteBudgetItem that removes an item of request R changes only  *)
(* that item and R's total_amount and updated_at: R's other items and its  *)
(* files, every other request with its items and files, and the files on   *)
(* disk stay as they were; a call that returns false changes nothing.      *)
(***************************************************************************)
C38_DeleteItemFrame ==
  \A id \in ItemIds :
    LET out == Outcome("deleteBudgetItem", id) IN
    IF Returned(out) /\ Value(out) = TRUE
      THEN LET rid == budget_items[id].budget_request_id IN
           /\ out.db.budget_items = DeleteRow(budget_items, id)
           /\ out.db.file_uploads = file_uploads
           /\ out.db.disk = disk
           /\ out.db.seqs = seqs
           /\ DOMAIN out.db.budget_requests = DOMAIN budget_requests
           /\ \A k \in DOMAIN budget_requests \ {rid} :
                out.db.budget_requests[k] = budget_requests[k]
           /\ \A c \in DOMAIN budget_requests[rid] \ {"total_amount", "updated_at"} :
                out.db.budget_requests[rid][c] = budget_requests[rid][c]
      ELSE out.db = DB

\* Request 1 holds both items and the file, request 2 stands beside it with
\* another total; deleting item 1 at a later time moves request 1's total and
\* updated_at
C38_Witness ==
  LET out == Outcome("deleteBudgetItem", 1) IN
  /\ now = 1
  /\ DOMAIN budget_items = {1, 2}
  /\ budget_items[1].budget_request_id = 1
  /\ budget_items[2].budget_request_id = 1
  /\ 1 \in DOMAIN file_uploads
  /\ file_uploads[1].budget_request_id = 1
  /\ 2 \in DOMAIN budget_requests
  /\ budget_requests[2].total_amount # budget_requests[1].total_amount
  /\ Returned(out)
  /\ Value(out) = TRUE
  /\ out.db.budget_requests[1].total_amount # budget_requests[1].total_amount
  /\ out.db.budget_requests[1].updated_at # budget_requests[1].updated_at
  /\ out.db.budget_requests[2] = budget_requests[2]

(***************************************************************************)
(* C39: the FileUploadSection's list of selected files never holds more    *)
(* than maxFiles entries, whatever is selected, dropped or removed.        *)
(***************************************************************************)
C39_ListWithinMaxFiles == Len(files) <= maxFiles
====
